---- MODULE Spec2Model ----
(***************************************************************************)
(* Model of the shop backend: two JSON files (products.json, users.json),  *)
(* the cart / checkout route handlers that read-modify-write them and, in  *)
(* the optimized build, the 5 s in-memory read-through cache.              *)
(*                                                                         *)
(* Two builds of index.js exist in the repository:                         *)
(*   "legacy"    src/unnamed/part_001 lines 1-476: unprefixed and /api     *)
(*               routes, checkout, no cache, every read parses the file;   *)
(*   "optimized" src/index.js: /api routes only, cache with TTL, no        *)
(*               checkout route, no stock check.                           *)
(* A behaviour runs one build (variable build); both share the two files.  *)
(*                                                                         *)
(* A handler is an async function: it runs synchronously from one await to *)
(* the next, so one action is one such segment. Several requests may be in *)
(* flight (one per slot of Reqs) and their segments interleave.            *)
(* JSON.stringify / JSON.parse are modelled as a deep copy: on the values  *)
(* of this model (integers, arrays, plain objects) the round trip is       *)
(* structurally exact; what matters is that a parsed collection is a       *)
(* private copy while the cached collection is shared by reference.        *)
(***************************************************************************)
EXTENDS Integers, Sequences, FiniteSets, TLC

\* ---------------------------------------------------------------- bounds
MaxStock == 2
MaxQty == 2
MaxCartQty == 3
MaxArrivals == 2
MaxUserId == 3
MaxOtherHits == 2
MaxComments == 3

\* const CACHE_TTL = 5000 (milliseconds)
CACHE_TTL == 5000
\* the clock of the model advances by half a TTL
TickMs == CACHE_TTL \div 2

ProductIds == {1, 2}
MissingItem == 1 + Cardinality(ProductIds)
ItemInputs == ProductIds \cup {MissingItem}
\* the optimized cart handlers never look a product up: one id that exists
\* and one that does not stand for all
OptItemInputs == {1, MissingItem}
UserIds == {1}
MissingUser == 1 + Cardinality(UserIds)
UserInputs == UserIds \cup {MissingUser}
QtyInputs == (0 - 1)..MaxQty
Reqs == {1, 2}
\* os.cpus().length
NumCPUs == 2
\* how many workers may die in one run
MaxExits == 2
\* cluster.fork() numbers the workers from 1; 0 stands for the primary
WorkerIds == 1..(NumCPUs + MaxExits)
Primary == 0
\* identities of the parsed users arrays alive at one time: the cached one and
\* one per request in flight
ObjIds == 1..(Cardinality(Reqs) + 1)

\* ----------------------------------------------------------------- state
VARIABLES
    build,          \* which index.js runs
    unit,           \* quantities and stocks are counted in 1/unit: 1 when every
                    \* number is an integer, 2 when request bodies carry halves
    productsFile,   \* parsed content of products.json: id -> [stock]
    usersFile,      \* parsed content of users.json: id -> [cartItems, count]
    userCache,      \* optimized build: [data: the cached array (0 for null), age]
    productCache,   \* optimized build: [data: the cached products (None for null), age]
    heap,           \* optimized build: the users arrays in memory, by identity
    req,            \* the requests in flight, one per slot
    answered,       \* the request the last step answered, as it was answered
    lastRead,       \* the readUsers()/readProducts() the last step resolved
    written,        \* optimized build: a writeUsers has completed, no write failed since
    arrivals,       \* how many requests have arrived while requests may overlap
    preWrite,       \* the users array this process had cached, still valid, when
                    \* another worker last wrote users.json; None once the cache
                    \* has been set anew
    lost,           \* the files that are missing or hold no JSON: fs.readFile or
                    \* JSON.parse throws on them; writeFile creates them anew
    limiter,        \* the rate limiter's store of each worker process: the hits
                    \* of each client IP in its current window
    door,           \* the requests each client IP has sent in its current window,
                    \* and what became of the request the last step let in
    held,           \* the contents users.json has held since process start, where
                    \* a property needs them; empty where none does
    unsold,         \* per product, the stock at process start less the quantities
                    \* of the checkouts answered 200 since, where a property
                    \* needs them; None where none does
    cluster         \* the processes of a clustered start: whether
                    \* ENABLE_CLUSTERING is set, where the primary stands in
                    \* index.js, each worker's state and the processes that
                    \* have served a request; NoCluster where no property
                    \* needs them

\* A cache is {data, time} in the code and is valid while Date.now() - time <
\* CACHE_TTL. The model keeps age = Date.now() - time instead of the two
\* clock readings, and stops counting at CACHE_TTL: every older snapshot is
\* treated alike by isCacheValid. Setting time: Date.now() is age 0.
files == <<productsFile, usersFile>>
caches == <<userCache, productCache, heap>>
vars == <<build, unit, productsFile, usersFile, userCache, productCache, heap, req,
          answered, lastRead, written, arrivals, preWrite, lost,
          limiter, door, held, unsold, cluster>>

None == <<>>
NoCluster == [enabled |-> FALSE, primary |-> "off",
              worker |-> [w \in WorkerIds |-> "none"], served |-> {}]

\* "Max 100 items per cart" (OPTIMIZATIONS.md)
CART_LIMIT == 100

\* "Max 1000 comments per product" (OPTIMIZATIONS.md)
COMMENT_CEILING == 1000

\* rateLimit({ windowMs: 15 * 60 * 1000, max: 100, ... })
RATE_MAX == 100

\* the client IPs
IPs == {1, 2}

\* no request has come in: nobody has sent anything in the current window
NoHits == [ip \in IPs |-> 0]
Quiet == [seen |-> NoHits, ip |-> 0, passed |-> FALSE]

Line(i, q) == [itemId |-> i, quantity |-> q]

\* ------------------------------------------------------- pure helpers

\* cartItems.reduce((s, c) => s + (c.quantity || 0), 0)
RECURSIVE SumQuantities(_)
SumQuantities(cartItems) ==
    IF cartItems = <<>> THEN 0
    ELSE Head(cartItems).quantity + SumQuantities(Tail(cartItems))

\* cartItems.findIndex((ci) => ci.itemId === itemId), 1-based, 0 for -1
FindIndex(cartItems, itemId) ==
    IF \E k \in 1..Len(cartItems) : cartItems[k].itemId = itemId
    THEN CHOOSE k \in 1..Len(cartItems) :
            /\ cartItems[k].itemId = itemId
            /\ \A j \in 1..(k - 1) : cartItems[j].itemId # itemId
    ELSE 0

\* Number.isInteger(x), x counted in 1/unit
IsInteger(x) == x % unit = 0

\* users.findIndex((u) => u.id === id) !== -1
UserExists(users, id) == id \in DOMAIN users

\* products.find((p) => p.id === itemId) is defined
ProductExists(products, itemId) == itemId \in DOMAIN products

\* fault variant: the derived count is left as it was
SetCartOnly(users, id, cart) == [users EXCEPT ![id].cartItems = cart]
\* users[idx].cartItems = cart; users[idx].CartItemsLength = { items: sum }
\* (optimized build: user.CartItemsNumber = calculateCartItemsNumber(user.cartItems))
SetCart(users, id, cart) ==
    [users EXCEPT ![id].cartItems = cart, ![id].count = SumQuantities(cart)]

\* fault variant: the quantity of an existing line is replaced, not increased
AddLineReplacing(cartItems, itemId, quantity) ==
    LET k == FindIndex(cartItems, itemId) IN
    IF k = 0 THEN Append(cartItems, Line(itemId, quantity))
    ELSE [cartItems EXCEPT ![k].quantity = quantity]
\* fault variant: a line is pushed whether or not the item already has one
AddLineAppending(cartItems, itemId, quantity) ==
    Append(cartItems, Line(itemId, quantity))
\* existing ? existing.quantity += quantity : cartItems.push({itemId, quantity})
AddLine(cartItems, itemId, quantity) ==
    LET k == FindIndex(cartItems, itemId) IN
    IF k = 0 THEN Append(cartItems, Line(itemId, quantity))
    ELSE [cartItems EXCEPT ![k].quantity = @ + quantity]

\* fault variant: quantity 0 removes the last line, not the line found
SetQuantityDroppingLast(cartItems, k, quantity) ==
    IF quantity = 0
    THEN SubSeq(cartItems, 1, Len(cartItems) - 1)
    ELSE [cartItems EXCEPT ![k].quantity = quantity]
\* quantity === 0 ? cartItems.splice(ciIdx, 1) : cartItems[ciIdx].quantity = quantity
SetQuantity(cartItems, k, quantity) ==
    IF quantity = 0
    THEN [j \in 1..(Len(cartItems) - 1) |->
            IF j < k THEN cartItems[j] ELSE cartItems[j + 1]]
    ELSE [cartItems EXCEPT ![k].quantity = quantity]

\* cartItems.filter((ci) => ci.itemId !== itemId)
RemoveItem(cartItems, itemId) ==
    SelectSeq(cartItems, LAMBDA ci : ci.itemId # itemId)

\* existing ? existing.quantity || 0 : 0
ExistingQty(cartItems, itemId) ==
    LET k == FindIndex(cartItems, itemId) IN
    IF k = 0 THEN 0 ELSE cartItems[k].quantity

\* typeof product.stock === "number" && existingQty + quantity > product.stock
ExceedsStock(product, existingQty, quantity) ==
    existingQty + quantity > product.stock

\* fault variant: the comparison lets one unit more than the stock through
InsufficientStockOffByOne(prod, qty) == prod.stock + 1 < qty
\* typeof prod.stock !== "number" || prod.stock < qty
InsufficientStock(prod, qty) == prod.stock < qty

\* fault variant: the validation loop only looks the products up
CheckoutRejectsMissingOnly(cart, products) ==
    \E k \in 1..Len(cart) : ~ProductExists(products, cart[k].itemId)
\* the validation loop of checkout: some line fails
CheckoutRejects(cart, products) ==
    \E k \in 1..Len(cart) :
        \/ ~ProductExists(products, cart[k].itemId)
        \/ InsufficientStock(products[cart[k].itemId], cart[k].quantity)

\* fault variant: each line takes one unit, whatever its quantity
RECURSIVE DecrementStockByOne(_, _)
DecrementStockByOne(cart, products) ==
    IF cart = <<>> THEN products
    ELSE DecrementStockByOne(Tail(cart),
            [products EXCEPT ![Head(cart).itemId].stock = @ - 1])
\* for (const ci of cart) prod.stock -= ci.quantity || 0
RECURSIVE DecrementStock(_, _)
DecrementStock(cart, products) ==
    IF cart = <<>> THEN products
    ELSE DecrementStock(Tail(cart),
            [products EXCEPT ![Head(cart).itemId].stock = @ - Head(cart).quantity])

\* ------------------------------------------------------- JSON values

\* A JSON value of a request body, numbers counted in halves.
Num(twice) == [type |-> "number", twice |-> twice, str |-> ""]
Str(str) == [type |-> "string", twice |-> 0, str |-> str]
JTrue == [type |-> "boolean", twice |-> 2, str |-> ""]
JFalse == [type |-> "boolean", twice |-> 0, str |-> ""]
JNull == [type |-> "null", twice |-> 0, str |-> ""]
Undefined == [type |-> "undefined", twice |-> 0, str |-> ""]

\* a number of JavaScript: NaN, or a value counted in halves
NaN == [nan |-> TRUE, twice |-> 0]
Number(twice) == [nan |-> FALSE, twice |-> twice]

\* Number(string) on the strings the requests use: the empty string is 0, a
\* decimal digit is its value, anything else is NaN
StringToNumber(str) ==
    IF str = "" THEN Number(0)
    ELSE IF str = "1" THEN Number(2)
    ELSE IF str = "3" THEN Number(6)
    ELSE IF str = "5" THEN Number(10)
    ELSE IF str = "9" THEN Number(18)
    ELSE NaN

\* fault variant: only a JSON number converts
ToNumberOfNumbers(j) == IF j.type = "number" THEN Number(j.twice) ELSE NaN
\* Number(value): true is 1, false and null are 0, undefined is NaN
ToNumber(j) ==
    IF j.type = "number" \/ j.type = "boolean" THEN Number(j.twice)
    ELSE IF j.type = "string" THEN StringToNumber(j.str)
    ELSE IF j.type = "null" THEN Number(0)
    ELSE NaN

\* Number.isInteger(x)
IsIntegerNumber(x) == ~x.nan /\ x.twice % 2 = 0

\* averageRating returns null
NullRating == 0 - 1

\* ------------------------------------------------------ request slots

LegacyAddRoutes == {"POST /users/:id/cart", "POST /api/users/:id/cart"}
\* the /api PATCH and checkout handlers of the legacy build are textual copies
\* of the unprefixed ones (part_001 361-396 and 398-439)
LegacyPatchRoutes == {"PATCH /users/:id/cart/:itemId"}
LegacyDeleteRoutes == {"DELETE /users/:id/cart/:itemId"}
LegacyCheckoutRoutes == {"POST /users/:id/checkout"}
LegacyRoutes ==
    LegacyAddRoutes \cup LegacyPatchRoutes \cup LegacyDeleteRoutes \cup LegacyCheckoutRoutes

OptAddRoutes == {"POST /api/users/:id/cart"}
OptPatchRoutes == {"PATCH /api/users/:id/cart/:itemId"}
OptDeleteRoutes == {"DELETE /api/users/:id/cart/:itemId"}
OptGetUsersRoutes == {"GET /api/users"}
OptGetProductsRoutes == {"GET /api/products"}
OptimizedRoutes ==
    OptAddRoutes \cup OptPatchRoutes \cup OptDeleteRoutes \cup OptGetUsersRoutes
        \cup OptGetProductsRoutes

Routes == IF build = "legacy" THEN LegacyRoutes ELSE OptimizedRoutes

\* the routes that change a cart, and the read of the collection they change
CartRoutes == Routes \ OptGetProductsRoutes

\* the reads of both collections, and one route that writes
ReadRoutes == OptGetUsersRoutes \cup OptGetProductsRoutes \cup OptAddRoutes

\* a request: its parameters, where its handler stands (pc), its locals
\* (users, products, ref, raw, output) and what is recorded of it for the
\* properties (users0, products0: the collections as it read them; clean: no
\* writeUsers completed since it arrived; replaced: the content of users.json
\* its writeUsers replaced; cause: what made it fail; username, email,
\* password: the body of a user request, each a sequence of characters, empty
\* when absent; error, body: the message and the keys of an error response
\* where the model records them; user, text, rating: the body of a comment
\* request; product, average: the product and its rating in the response;
\* again: a checkout sent right after the same user's successful checkout)
Idle ==
    [route |-> "", id |-> 0, itemId |-> 0, quantity |-> 0, pc |-> "idle", status |-> 0,
     users |-> None, products |-> None, users0 |-> None, products0 |-> None,
     ref |-> 0, raw |-> None, output |-> None, clean |-> TRUE, replaced |-> None,
     cause |-> "", error |-> "", again |-> FALSE]

\* req.body of the user routes, and the body of the error response
UserIdle ==
    Idle @@ [username |-> <<>>, email |-> <<>>, password |-> <<>>, body |-> {}]

\* req.body of the comment route, the product and averageRating of the
\* response, and the body of the error response
ProductIdle ==
    Idle @@ [user |-> "", text |-> "", rating |-> Undefined, product |-> None,
             average |-> NullRating, body |-> {}]

\* the keys of the body of an add to cart
AddIdle == Idle @@ [given |-> {}]

\* a resolved read: from the cache (a snapshot of that age) or from the file
NoRead == [from |-> "", age |-> 0]
CacheRead(age) == [from |-> "cache", age |-> age]
FileRead == [from |-> "file", age |-> 0]

InFlight(q) == q.pc # "idle"

\* res.status(status).json(...): the handler returns
Answer(q, status) ==
    [q EXCEPT !.pc = "done", !.status = status]

\* the catch block of a handler: console.error(err); res.status(500)
Fail(q, cause) ==
    [q EXCEPT !.pc = "done", !.status = 500, !.cause = cause]

\* ------------------------------------------- legacy handlers (part_001)

\* POST /users/:id/cart and POST /api/users/:id/cart, up to await readProducts()
LegacyAddBegin(q) ==
    IF ~IsInteger(q.quantity) \/ q.quantity <= 0 THEN Answer(q, 400) ELSE [q EXCEPT !.pc = "readProducts"]

\* the unprefixed add reads users[idx] before `const users` is initialised
\* (temporal dead zone): a ReferenceError whenever the product exists
ReadsUsersBeforeDeclaration(route) == route = "POST /users/:id/cart"

\* ... from readProducts() to await readUsers()
LegacyAddAfterProducts(q) ==
    IF ~ProductExists(q.products, q.itemId) THEN Answer(q, 400)
    ELSE IF ReadsUsersBeforeDeclaration(q.route) THEN Fail(q, "ReferenceError")
    ELSE [q EXCEPT !.pc = "readUsers"]

\* ... from readUsers() to await writeUsers(users)
LegacyAddAfterUsers(q) ==
    IF ~UserExists(q.users, q.id) THEN Answer(q, 404)
    ELSE LET cart == q.users[q.id].cartItems IN
         IF ExceedsStock(q.products[q.itemId], ExistingQty(cart, q.itemId), q.quantity)
         THEN Answer(q, 400)
         ELSE [q EXCEPT !.users = SetCart(q.users, q.id, AddLine(cart, q.itemId, q.quantity)),
                        !.pc = "writeUsers"]

\* PATCH (/api)/users/:id/cart/:itemId, up to await readUsers()
LegacyPatchBegin(q) ==
    IF ~IsInteger(q.quantity) \/ q.quantity < 0 THEN Answer(q, 400) ELSE [q EXCEPT !.pc = "readUsers"]

\* fault variant: a quantity above the stock of the product is rejected
LegacyPatchAfterUsersWithinStock(q) ==
    IF ~UserExists(q.users, q.id) THEN Answer(q, 404)
    ELSE LET cart == q.users[q.id].cartItems
             ciIdx == FindIndex(cart, q.itemId) IN
         IF ciIdx = 0 THEN Answer(q, 404)
         ELSE IF /\ ProductExists(productsFile, q.itemId)
                 /\ q.quantity > productsFile[q.itemId].stock THEN Answer(q, 400)
         ELSE [q EXCEPT !.users = SetCart(q.users, q.id, SetQuantity(cart, ciIdx, q.quantity)),
                        !.pc = "writeUsers"]
\* ... from readUsers() to await writeUsers(users)
LegacyPatchAfterUsers(q) ==
    IF ~UserExists(q.users, q.id) THEN Answer(q, 404)
    ELSE LET cart == q.users[q.id].cartItems
             ciIdx == FindIndex(cart, q.itemId) IN
         IF ciIdx = 0 THEN Answer(q, 404)
         ELSE [q EXCEPT !.users = SetCart(q.users, q.id, SetQuantity(cart, ciIdx, q.quantity)),
                        !.pc = "writeUsers"]

\* DELETE /users/:id/cart/:itemId, from readUsers() to await writeUsers(users)
LegacyDeleteAfterUsers(q) ==
    IF ~UserExists(q.users, q.id) THEN Answer(q, 404)
    ELSE [q EXCEPT !.users = SetCart(q.users, q.id,
                                     RemoveItem(q.users[q.id].cartItems, q.itemId)),
                   !.pc = "writeUsers"]

\* the message of the first cart line the stock loop of checkout rejects
RECURSIVE CheckoutError(_, _)
CheckoutError(cart, products) ==
    IF cart = <<>> THEN ""
    ELSE IF ~ProductExists(products, Head(cart).itemId) THEN "Product not found"
    ELSE IF products[Head(cart).itemId].stock < Head(cart).quantity
    THEN "Insufficient stock for product"
    ELSE CheckoutError(Tail(cart), products)

\* fault variant: the cart is written back as it was
CheckoutAfterProductsKeepingCart(q) ==
    IF ~UserExists(q.users, q.id) THEN Answer(q, 404)
    ELSE LET cart == q.users[q.id].cartItems IN
         IF Len(cart) = 0 THEN [Answer(q, 400) EXCEPT !.error = "Cart is empty"]
         ELSE IF CheckoutRejects(cart, q.products)
         THEN [Answer(q, 400) EXCEPT !.error = CheckoutError(cart, q.products)]
         ELSE [q EXCEPT !.products = DecrementStock(cart, q.products),
                        !.pc = "writeProducts"]

\* POST (/api)/users/:id/checkout, from readProducts() to await writeProducts(products)
CheckoutAfterProducts(q) ==
    IF ~UserExists(q.users, q.id) THEN Answer(q, 404)
    ELSE LET cart == q.users[q.id].cartItems IN
         IF Len(cart) = 0 THEN [Answer(q, 400) EXCEPT !.error = "Cart is empty"]
         ELSE IF CheckoutRejects(cart, q.products)
         THEN [Answer(q, 400) EXCEPT !.error = CheckoutError(cart, q.products)]
         ELSE [q EXCEPT !.products = DecrementStock(cart, q.products),
                        !.users = SetCart(q.users, q.id, <<>>),
                        !.pc = "writeProducts"]

\* ---------------------------------------- optimized handlers (index.js)

\* validateUserId: Number.isInteger(id) && id > 0
ValidUserId(id) == id > 0

\* fault variant: a snapshot exactly CACHE_TTL old still counts as valid
IsCacheValidInclusive(hasData, age) == hasData /\ age <= CACHE_TTL
\* isCacheValid(cache): cache.data && Date.now() - cache.time < CACHE_TTL
IsCacheValid(hasData, age) == hasData /\ age < CACHE_TTL

\* POST /api/users/:id/cart, up to await readUsers()
OptAddBegin(q) ==
    IF ~ValidUserId(q.id) THEN Answer(q, 400)
    ELSE IF q.itemId = 0 \/ q.quantity = 0 THEN Answer(q, 400)
    ELSE IF q.quantity < unit THEN Answer(q, 400)
    ELSE [q EXCEPT !.pc = "readUsers"]

\* ... from readUsers() to the writeFile of writeUsers(users): neither the
\* product nor its stock is looked up
OptAddAfterUsers(q) ==
    IF ~UserExists(q.users, q.id) THEN Answer(q, 404)
    ELSE [q EXCEPT !.users = SetCart(q.users, q.id,
                                AddLine(q.users[q.id].cartItems, q.itemId, q.quantity)),
                   !.pc = "writeUsers"]

\* PATCH /api/users/:id/cart/:itemId, up to await readUsers()
OptPatchBegin(q) ==
    IF ~ValidUserId(q.id) THEN Answer(q, 400)
    ELSE IF q.quantity < 0 THEN Answer(q, 400)
    ELSE [q EXCEPT !.pc = "readUsers"]

\* fault variant: the cart is emptied before the line is looked up
OptPatchAfterUsersEmptyingFirst(q) ==
    IF ~UserExists(q.users, q.id) THEN Answer(q, 404)
    ELSE LET cart == q.users[q.id].cartItems
             k == FindIndex(cart, q.itemId) IN
         IF k = 0 THEN [Answer(q, 404) EXCEPT !.users = SetCart(q.users, q.id, <<>>)]
         ELSE [q EXCEPT !.users = SetCart(q.users, q.id,
                                    IF q.quantity = 0 THEN RemoveItem(cart, q.itemId)
                                    ELSE [cart EXCEPT ![k].quantity = q.quantity]),
                        !.pc = "writeUsers"]
\* ... from readUsers() to the writeFile of writeUsers(users)
OptPatchAfterUsers(q) ==
    IF ~UserExists(q.users, q.id) THEN Answer(q, 404)
    ELSE LET cart == q.users[q.id].cartItems
             k == FindIndex(cart, q.itemId) IN
         IF k = 0 THEN Answer(q, 404)
         ELSE [q EXCEPT !.users = SetCart(q.users, q.id,
                                    IF q.quantity = 0 THEN RemoveItem(cart, q.itemId)
                                    ELSE [cart EXCEPT ![k].quantity = q.quantity]),
                        !.pc = "writeUsers"]

\* DELETE /api/users/:id/cart/:itemId
OptDeleteBegin(q) ==
    IF ~ValidUserId(q.id) THEN Answer(q, 400) ELSE [q EXCEPT !.pc = "readUsers"]

OptDeleteAfterUsers(q) ==
    IF ~UserExists(q.users, q.id) THEN Answer(q, 404)
    ELSE [q EXCEPT !.users = SetCart(q.users, q.id,
                                     RemoveItem(q.users[q.id].cartItems, q.itemId)),
                   !.pc = "writeUsers"]

\* ------------------------------- user handlers, optimized (index.js)
\* A user is [id, username, email] here: the handlers of this section read
\* and write nothing else of a user that decides what they do.

\* res.status(status).json({error}) or .json({error, field})
Reject(q, status, error, keys) ==
    [q EXCEPT !.pc = "done", !.status = status, !.error = error, !.body = keys]

\* String.prototype.toLowerCase on the letters the requests use
LowerChar(c) == IF c = "A" THEN "a" ELSE IF c = "B" THEN "b" ELSE c
ToLower(str) == [k \in 1..Len(str) |-> LowerChar(str[k])]

\* String.prototype.trim
RECURSIVE Trim(_)
Trim(str) ==
    IF str = <<>> THEN str
    ELSE IF Head(str) = " " THEN Trim(Tail(str))
    ELSE IF str[Len(str)] = " " THEN Trim(SubSeq(str, 1, Len(str) - 1))
    ELSE str

\* email.includes("@")
IncludesAt(str) == \E k \in 1..Len(str) : str[k] = "@"

\* users.findIndex((u) => u.id === id), 1-based, 0 for -1
FindUser(users, id) ==
    IF \E k \in 1..Len(users) : users[k].id = id
    THEN CHOOSE k \in 1..Len(users) :
            /\ users[k].id = id
            /\ \A j \in 1..(k - 1) : users[j].id # id
    ELSE 0

\* Math.max(...users.map((u) => u.id), 0)
RECURSIVE MaxId(_)
MaxId(users) ==
    IF users = <<>> THEN 0
    ELSE LET rest == MaxId(Tail(users)) IN
         IF Head(users).id > rest THEN Head(users).id ELSE rest

\* fault variant: the new id is the number of users plus one
NextIdByCount(users) == Len(users) + 1
\* Math.max(...users.map((u) => u.id), 0) + 1
NextId(users) == MaxId(users) + 1

\* POST /api/users, up to await readUsers()
CreateUserBegin(q) ==
    IF q.username = <<>> \/ q.email = <<>> \/ q.password = <<>>
    THEN Reject(q, 400, "Username, email, and password are required", {"error"})
    ELSE IF Len(q.username) < 3
    THEN Reject(q, 400, "Username must be at least 3 characters", {"error"})
    ELSE IF ~IncludesAt(q.email)
    THEN Reject(q, 400, "Invalid email format", {"error"})
    ELSE IF Len(q.password) < 6
    THEN Reject(q, 400, "Password must be at least 6 characters", {"error"})
    ELSE [q EXCEPT !.pc = "readUsers"]

\* ... from readUsers() to the writeFile of writeUsers(users)
CreateUserAfterUsers(q) ==
    IF \E k \in 1..Len(q.users) : q.users[k].email = ToLower(q.email)
    THEN Reject(q, 409, "Email already registered", {"error", "field"})
    ELSE IF \E k \in 1..Len(q.users) :
                ToLower(q.users[k].username) = ToLower(q.username)
    THEN Reject(q, 409, "Username already taken", {"error", "field"})
    ELSE [q EXCEPT !.users = Append(q.users, [id |-> NextId(q.users),
                                              username |-> Trim(q.username),
                                              email |-> ToLower(Trim(q.email))]),
                   !.pc = "writeUsers"]

\* PATCH /api/users/:id and DELETE /api/users/:id, up to await readUsers()
UserByIdBegin(q) ==
    IF ~ValidUserId(q.id) THEN Reject(q, 400, "Invalid user ID", {"error"})
    ELSE [q EXCEPT !.pc = "readUsers"]

\* PATCH /api/users/:id, from readUsers() to the writeFile of writeUsers(users)
UpdateUserAfterUsers(q) ==
    LET k == FindUser(q.users, q.id) IN
    IF k = 0 THEN Reject(q, 404, "User not found", {"error"})
    ELSE IF q.username # <<>> /\ Len(q.username) < 3
    THEN Reject(q, 400, "Username must be at least 3 characters", {"error"})
    ELSE IF q.email # <<>> /\ ~IncludesAt(q.email)
    THEN Reject(q, 400, "Invalid email format", {"error"})
    ELSE IF q.password # <<>> /\ Len(q.password) < 6
    THEN Reject(q, 400, "Password must be at least 6 characters", {"error"})
    ELSE IF /\ q.email # <<>>
            /\ q.email # q.users[k].email
            /\ \E j \in 1..Len(q.users) :
                  q.users[j].email = q.email /\ q.users[j].id # q.id
    THEN Reject(q, 409, "Email already in use", {"error"})
    ELSE IF /\ q.username # <<>>
            /\ q.username # q.users[k].username
            /\ \E j \in 1..Len(q.users) :
                  q.users[j].username = q.username /\ q.users[j].id # q.id
    THEN Reject(q, 409, "Username already taken", {"error"})
    ELSE [q EXCEPT !.users = [q.users EXCEPT
                       ![k].username = IF q.username # <<>> THEN Trim(q.username) ELSE @,
                       ![k].email = IF q.email # <<>> THEN Trim(q.email) ELSE @],
                   !.pc = "writeUsers"]

\* DELETE /api/users/:id, from readUsers() to the writeFile of writeUsers(users)
DeleteUserAfterUsers(q) ==
    LET k == FindUser(q.users, q.id) IN
    IF k = 0 THEN Reject(q, 404, "User not found", {"error"})
    ELSE [q EXCEPT !.users = [j \in 1..(Len(q.users) - 1) |->
                                IF j < k THEN q.users[j] ELSE q.users[j + 1]],
                   !.pc = "writeUsers"]

CreateUserRoutes == {"POST /api/users"}
UpdateUserRoutes == {"PATCH /api/users/:id"}
DeleteUserRoutes == {"DELETE /api/users/:id"}
UserRoutes == CreateUserRoutes \cup UpdateUserRoutes \cup DeleteUserRoutes

\* ------------------------------------------------- products and comments

\* A product of the catalog is [stock, hasComments, comments] where the
\* comment routes are modelled: hasComments tells a product with a comments
\* property from one without, comments is the list, each comment [user,
\* text, rating]. A stored rating of 0 stands for a rating that is missing
\* or falsy.

\* comments.reduce((s, c) => s + (c.rating || 0), 0); the sum of integers
\* does not depend on the order, and halving the list keeps the recursion
\* shallow on a long list
RECURSIVE SumRatings(_)
SumRatings(comments) ==
    IF Len(comments) = 0 THEN 0
    ELSE IF Len(comments) = 1 THEN comments[1].rating
    ELSE LET half == Len(comments) \div 2 IN
         SumRatings(SubSeq(comments, 1, half))
             + SumRatings(SubSeq(comments, half + 1, Len(comments)))

\* fault variant: the digits after the second decimal are cut off
ToFixed2Truncating(sum, n) == (100 * sum) \div n
\* +(sum / n).toFixed(2), in hundredths: the hundredth nearest to sum / n,
\* the larger one of two equally near
ToFixed2(sum, n) == (200 * sum + n) \div (2 * n)

\* averageRating(comments); a product without comments has comments = <<>>
\* in the model as well
AverageRating(comments) ==
    IF Len(comments) = 0 THEN NullRating
    ELSE ToFixed2(SumRatings(comments), Len(comments))

GetProductRoutes == {"GET /api/products/:id"}
CommentRoutes == {"POST /api/products/:id/comments"}

\* res.json({ ...product, rating: averageRating(product.comments) })
WithRating(q, status, product) ==
    [Answer(q, status) EXCEPT !.product = product,
                              !.average = AverageRating(product.comments)]

\* validateProductId of index.js: Number.isInteger(id) && id > 0
GetProductBegin(q) ==
    IF q.id <= 0 THEN Reject(q, 400, "Invalid product ID", {"error"})
    ELSE [q EXCEPT !.pc = "readProducts"]

\* GET /api/products/:id, from readProducts() on
GetProductAfterProducts(q) ==
    IF ~ProductExists(q.products, q.id)
    THEN Reject(q, 404, "Product not found", {"error"})
    ELSE WithRating(q, 200, q.products[q.id])

\* POST /api/products/:id/comments, up to await readProducts()
CommentBegin(q) ==
    IF q.user = "" \/ q.text = ""
    THEN Reject(q, 400, "user and text are required", {"error"})
    ELSE LET numericRating == ToNumber(q.rating) IN
         IF \/ ~IsIntegerNumber(numericRating)
            \/ numericRating.twice < 2
            \/ numericRating.twice > 10
         THEN Reject(q, 400, "rating must be an integer between 1 and 5", {"error"})
         ELSE [q EXCEPT !.pc = "readProducts"]

\* ... from readProducts() to await writeProducts(products)
CommentAfterProducts(q) ==
    IF ~ProductExists(q.products, q.id)
    THEN Reject(q, 404, "Product not found", {"error"})
    ELSE LET comment == [user |-> q.user, text |-> q.text,
                         rating |-> ToNumber(q.rating).twice \div 2] IN
         [q EXCEPT !.products = [q.products EXCEPT ![q.id].hasComments = TRUE,
                                                   ![q.id].comments = Append(@, comment)],
                   !.pc = "writeProducts"]

\* ... after writeProducts(products): res.status(201).json(updated)
CommentAfterWrite(q) == WithRating(q, 201, q.products[q.id])

\* --------------------------------------------------------- dispatching

\* the status of the success response of each route
SuccessStatus(route) ==
    IF build = "legacy" /\ route \in LegacyAddRoutes THEN 201
    ELSE IF route \in CreateUserRoutes THEN 201
    ELSE 200

\* the synchronous segment a handler runs when the request arrives
Begin(q) ==
    IF build = "legacy"
    THEN IF q.route \in LegacyAddRoutes THEN LegacyAddBegin(q)
         ELSE IF q.route \in LegacyPatchRoutes THEN LegacyPatchBegin(q)
         ELSE IF q.route \in CommentRoutes THEN CommentBegin(q)
         ELSE IF q.route \in GetProductRoutes THEN [q EXCEPT !.pc = "readProducts"]
         ELSE [q EXCEPT !.pc = "readUsers"]
    ELSE IF q.route \in OptAddRoutes THEN OptAddBegin(q)
         ELSE IF q.route \in OptPatchRoutes THEN OptPatchBegin(q)
         ELSE IF q.route \in OptDeleteRoutes THEN OptDeleteBegin(q)
         ELSE IF q.route \in CreateUserRoutes THEN CreateUserBegin(q)
         ELSE IF q.route \in UpdateUserRoutes \cup DeleteUserRoutes THEN UserByIdBegin(q)
         ELSE IF q.route \in OptGetUsersRoutes THEN [q EXCEPT !.pc = "readUsers"]
         ELSE IF q.route \in GetProductRoutes THEN GetProductBegin(q)
         ELSE [q EXCEPT !.pc = "readProducts"]

\* the segment that runs when readUsers() resolves; q.users is the array
AfterUsers(q) ==
    IF build = "legacy"
    THEN IF q.route \in LegacyAddRoutes THEN LegacyAddAfterUsers(q)
         ELSE IF q.route \in LegacyPatchRoutes THEN LegacyPatchAfterUsers(q)
         ELSE IF q.route \in LegacyDeleteRoutes THEN LegacyDeleteAfterUsers(q)
         ELSE [q EXCEPT !.pc = "readProducts"]
    ELSE IF q.route \in OptAddRoutes THEN OptAddAfterUsers(q)
         ELSE IF q.route \in OptPatchRoutes THEN OptPatchAfterUsers(q)
         ELSE IF q.route \in OptDeleteRoutes THEN OptDeleteAfterUsers(q)
         ELSE IF q.route \in CreateUserRoutes THEN CreateUserAfterUsers(q)
         ELSE IF q.route \in UpdateUserRoutes THEN UpdateUserAfterUsers(q)
         ELSE IF q.route \in DeleteUserRoutes THEN DeleteUserAfterUsers(q)
         ELSE Answer(q, 200)

\* the segment that runs when readProducts() resolves
AfterProducts(q) ==
    IF build = "legacy"
    THEN IF q.route \in LegacyAddRoutes THEN LegacyAddAfterProducts(q)
         ELSE IF q.route \in CommentRoutes THEN CommentAfterProducts(q)
         ELSE IF q.route \in GetProductRoutes THEN GetProductAfterProducts(q)
         ELSE CheckoutAfterProducts(q)
    ELSE IF q.route \in GetProductRoutes THEN GetProductAfterProducts(q)
    ELSE Answer(q, 200)

\* ---------------------------------------------------------------- actions

\* the slot after a segment: an answered request leaves its slot; in the
\* optimized build the array lives in the heap, and writeUsers has computed
\* output = JSON.stringify(users) before it awaits writeFile
Slot(q) ==
    IF q.pc = "done" THEN Idle
    ELSE IF build = "legacy" THEN q
    ELSE [q EXCEPT !.users = None,
                   !.output = IF q.pc = "writeUsers" THEN q.users ELSE None]

\* what the step answered, if it answered
Answered(q) ==
    IF q.pc = "done" THEN [q EXCEPT !.ref = 0, !.raw = None, !.output = None] ELSE Idle

\* the identities the cache and the slots hold, in that order
LiveRefs(uc, rq) ==
    LET refs == <<uc.data>> \o [s \in 1..Cardinality(Reqs) |-> rq[s].ref] IN
    SelectSeq(refs, LAMBDA o : o # 0)

\* a sequence without its repetitions, first occurrences kept in order
RECURSIVE Distinct(_)
Distinct(refs) ==
    IF refs = <<>> THEN <<>>
    ELSE LET rest == Distinct(SubSeq(refs, 1, Len(refs) - 1))
             last == refs[Len(refs)] IN
         IF \E k \in 1..Len(rest) : rest[k] = last THEN rest ELSE Append(rest, last)

\* The next state's cache, heap and slots. An array no variable refers to is
\* garbage; the identities of the live arrays are renumbered in the order
\* userCache.data, req[1].ref, req[2].ref first mention them (an identity
\* carries no meaning beyond being equal or different).
Commit(uc, h, rq) ==
    \E order \in {Distinct(LiveRefs(uc, rq))} :
        LET New(o) == IF o = 0 THEN 0 ELSE CHOOSE n \in 1..Len(order) : order[n] = o IN
        /\ userCache' = [uc EXCEPT !.data = New(uc.data)]
        /\ heap' = [n \in ObjIds |-> IF n <= Len(order) THEN h[order[n]] ELSE None]
        /\ req' = [s \in Reqs |-> [rq[s] EXCEPT !.ref = New(rq[s].ref)]]

\* the slots once the writeUsers of slot r has completed and r has answered
SlotsAfterWrite(r) ==
    [s \in Reqs |-> IF s = r THEN Idle
                    ELSE IF InFlight(req[s]) THEN [req[s] EXCEPT !.clean = FALSE]
                    ELSE req[s]]

\* the first free identity
Fresh == Len(Distinct(LiveRefs(userCache, req))) + 1

\* the handler of slot r goes on with the users array o (the optimized build)
ResumeWithUsers(r, q, o, h, uc) ==
    \E q2 \in {AfterUsers([q EXCEPT !.ref = o, !.users = h[o], !.users0 = h[o]])} :
    \E rq \in {[req EXCEPT ![r] = Slot(q2)]} :
        /\ answered' = Answered(q2)
        /\ Commit(uc, [h EXCEPT ![o] = q2.users], rq)

\* the optimized add has no stock check, so a cart's quantities are
\* unbounded: the model stops adding at MaxCartQty
WithinCartCap(route, id, quantity) ==
    (build = "optimized" /\ route \in OptAddRoutes /\ id \in UserIds) =>
        /\ SumQuantities(usersFile[id].cartItems) + quantity <= MaxCartQty
        /\ \A o \in ObjIds : heap[o] # None =>
              SumQuantities(heap[o][id].cartItems) + quantity <= MaxCartQty

\* slot r is the first free slot
FreeSlot(r) ==
    /\ ~InFlight(req[r])
    /\ \A o \in Reqs : o < r => InFlight(req[o])

\* a request with the parameters of q0 arrives on a free slot and runs to its
\* first pending file operation; readUsers()/readProducts() on a valid cache
\* resolve at once
Admit(r, q0) ==
    /\ FreeSlot(r)
    /\ \E q \in {Begin(q0)} :
             IF build = "legacy" \/ q.pc = "done"
             THEN /\ req' = [req EXCEPT ![r] = Slot(q)]
                  /\ answered' = Answered(q)
                  /\ lastRead' = NoRead
                  /\ UNCHANGED caches
             ELSE IF q.pc = "readUsers"
             THEN IF IsCacheValid(userCache.data # 0, userCache.age)
                  THEN /\ ResumeWithUsers(r, q, userCache.data, heap, userCache)
                       /\ lastRead' = CacheRead(userCache.age)
                       /\ UNCHANGED productCache
                  ELSE /\ req' = [req EXCEPT ![r] = [q EXCEPT !.pc = "readUsersFile"]]
                       /\ answered' = Idle
                       /\ lastRead' = NoRead
                       /\ UNCHANGED caches
             ELSE IF IsCacheValid(productCache.data # None, productCache.age)
                  THEN /\ req' = [req EXCEPT ![r] = Idle]
                       /\ answered' = Answered(AfterProducts(
                              [q EXCEPT !.products = productCache.data,
                                        !.products0 = productCache.data]))
                       /\ lastRead' = CacheRead(productCache.age)
                       /\ UNCHANGED caches
                  ELSE /\ req' = [req EXCEPT ![r] = [q EXCEPT !.pc = "readProductsFile"]]
                       /\ answered' = Idle
                       /\ lastRead' = NoRead
                       /\ UNCHANGED caches
    /\ UNCHANGED <<build, unit, cluster, held, unsold, lost, preWrite, files, written>>

\* a cart or read request arrives, its route and parameters any of the given
Arrive(r, routes, ids, items, quantities) ==
    /\ FreeSlot(r)
    /\ \E route \in routes, id \in ids, itemId \in items, quantity \in quantities :
          /\ route \in LegacyCheckoutRoutes \cup OptGetUsersRoutes \cup OptGetProductsRoutes
                => id = 1 /\ itemId = 1 /\ quantity = 0
          /\ route \in LegacyDeleteRoutes \cup OptDeleteRoutes => quantity = 0
          /\ WithinCartCap(route, id, quantity)
          /\ Admit(r, [Idle EXCEPT !.route = route, !.id = id,
                                   !.itemId = itemId, !.quantity = quantity])
          /\ UNCHANGED <<limiter, door>>

\* requests may overlap: any free slot takes a request, MaxArrivals in all
ArriveAnyTime(r) ==
    /\ arrivals < MaxArrivals
    /\ arrivals' = arrivals + 1
    /\ Arrive(r, CartRoutes, UserIds, IF build = "legacy" THEN ProductIds ELSE {1}, 0..MaxQty)

\* one request at a time: a request arrives only when no other is in flight
ArriveAlone(r) ==
    /\ \A o \in Reqs : ~InFlight(req[o])
    /\ arrivals' = arrivals
    /\ Arrive(r, CartRoutes, UserInputs, IF build = "legacy" THEN ItemInputs ELSE OptItemInputs, QtyInputs)

\* one request at a time, the reads of both caches among them
ArriveToRead(r) ==
    /\ \A o \in Reqs : ~InFlight(req[o])
    /\ arrivals' = arrivals
    /\ Arrive(r, ReadRoutes, UserIds, {1}, 0..1)

\* the quantities of the cart's lines of product p, added up
RECURSIVE LinesOf(_, _)
LinesOf(cart, p) ==
    IF cart = <<>> THEN 0
    ELSE (IF Head(cart).itemId = p THEN Head(cart).quantity ELSE 0) + LinesOf(Tail(cart), p)

\* what is left unsold once a checkout of the given cart is answered 200
Sell(left, cart) ==
    IF left = None THEN left
    ELSE [p \in DOMAIN left |-> left[p] - LinesOf(cart, p)]

\* the contents users.json has held, once it holds value as well
Remember(h, value) == IF h = {} THEN h ELSE h \cup {value}

\* readUsers() of the legacy build resolves: the file is parsed into a fresh array
LegacyReadUsers(r) ==
    /\ build = "legacy"
    /\ req[r].pc = "readUsers"
    /\ "users" \notin lost
    /\ \E q \in {AfterUsers([req[r] EXCEPT !.users = usersFile, !.users0 = usersFile])} :
       /\ req' = [req EXCEPT ![r] = Slot(q)]
       /\ answered' = Answered(q)
    /\ lastRead' = NoRead
    /\ UNCHANGED <<build, unit, cluster, held, unsold, limiter, door, lost, preWrite, files, caches, written, arrivals>>

\* readProducts() of the legacy build resolves
LegacyReadProducts(r) ==
    /\ build = "legacy"
    /\ req[r].pc = "readProducts"
    /\ "products" \notin lost
    /\ \E q \in {AfterProducts([req[r] EXCEPT !.products = productsFile,
                                              !.products0 = productsFile])} :
       /\ req' = [req EXCEPT ![r] = Slot(q)]
       /\ answered' = Answered(q)
    /\ lastRead' = NoRead
    /\ UNCHANGED <<build, unit, cluster, held, unsold, limiter, door, lost, preWrite, files, caches, written, arrivals>>

\* writeProducts(products) resolves: checkout goes on to await
\* writeUsers(users), the comment route answers
LegacyWriteProducts(r) ==
    /\ build = "legacy"
    /\ req[r].pc = "writeProducts"
    /\ productsFile' = req[r].products
    /\ lost' = lost \ {"products"}
    /\ IF req[r].route \in CommentRoutes
       THEN /\ req' = [req EXCEPT ![r] = Idle]
            /\ answered' = Answered(CommentAfterWrite(req[r]))
       ELSE /\ req' = [req EXCEPT ![r].pc = "writeUsers"]
            /\ answered' = Idle
    /\ lastRead' = NoRead
    /\ UNCHANGED <<build, unit, cluster, held, unsold, limiter, door, preWrite, usersFile, caches, written, arrivals>>

\* writeUsers(users) resolves: the handler sends the success response
LegacyWriteUsers(r) ==
    /\ build = "legacy"
    /\ req[r].pc = "writeUsers"
    /\ usersFile' = req[r].users
    /\ held' = Remember(held, req[r].users)
    /\ lost' = lost \ {"users"}
    /\ req' = SlotsAfterWrite(r)
    /\ answered' = Answered(Answer([req[r] EXCEPT !.replaced = usersFile],
                                   SuccessStatus(req[r].route)))
    /\ lastRead' = NoRead
    /\ unsold' = IF req[r].route \in LegacyCheckoutRoutes
                  THEN Sell(unsold, req[r].users0[req[r].id].cartItems)
                  ELSE unsold
    /\ UNCHANGED <<build, unit, cluster, limiter, door, preWrite, productsFile, caches, written, arrivals>>

\* optimized readUsers(), cache miss: fs.readFile has read users.json
OptReadUsersFile(r) ==
    /\ req[r].pc = "readUsersFile"
    /\ "users" \notin lost
    /\ req' = [req EXCEPT ![r].raw = usersFile, ![r].pc = "parseUsers"]
    /\ answered' = Idle
    /\ lastRead' = NoRead
    /\ UNCHANGED <<build, unit, cluster, held, unsold, limiter, door, lost, preWrite, files, caches, written, arrivals>>

\* ... its promise resolves: data = JSON.parse(raw); userCache = {data, time:
\* Date.now()}; return data, and the handler goes on
OptReadUsersResolve(r) ==
    /\ req[r].pc = "parseUsers"
    /\ LET o == Fresh IN
       ResumeWithUsers(r, [req[r] EXCEPT !.raw = None],
                       o, [heap EXCEPT ![o] = req[r].raw], [data |-> o, age |-> 0])
    /\ lastRead' = FileRead
    /\ preWrite' = None
    /\ UNCHANGED <<build, unit, cluster, held, unsold, limiter, door, lost, files, productCache, written, arrivals>>

\* optimized readProducts(), cache miss: fs.readFile has read products.json
OptReadProductsFile(r) ==
    /\ req[r].pc = "readProductsFile"
    /\ "products" \notin lost
    /\ req' = [req EXCEPT ![r].raw = productsFile, ![r].pc = "parseProducts"]
    /\ answered' = Idle
    /\ lastRead' = NoRead
    /\ UNCHANGED <<build, unit, cluster, held, unsold, limiter, door, lost, preWrite, files, caches, written, arrivals>>

\* ... its promise resolves: productCache = {data, time: Date.now()}
OptReadProductsResolve(r) ==
    /\ req[r].pc = "parseProducts"
    /\ productCache' = [data |-> req[r].raw, age |-> 0]
    /\ req' = [req EXCEPT ![r] = Idle]
    /\ answered' = Answered(AfterProducts(
           [req[r] EXCEPT !.products = req[r].raw, !.products0 = req[r].raw]))
    /\ lastRead' = FileRead
    /\ UNCHANGED <<build, unit, cluster, held, unsold, limiter, door, lost, preWrite, files, userCache, heap, written, arrivals>>

\* optimized writeUsers(users): writeFile(USERS_FILE, output) resolves, then
\* userCache = {data: users, time: Date.now()} and the handler answers
OptWriteUsers(r) ==
    /\ build = "optimized"
    /\ req[r].pc = "writeUsers"
    /\ usersFile' = req[r].output
    /\ held' = Remember(held, req[r].output)
    /\ lost' = lost \ {"users"}
    /\ Commit([data |-> req[r].ref, age |-> 0], heap,
              SlotsAfterWrite(r))
    /\ answered' = Answered(Answer([req[r] EXCEPT !.users = heap[req[r].ref],
                                                  !.replaced = usersFile],
                                   SuccessStatus(req[r].route)))
    /\ written' = TRUE
    /\ lastRead' = NoRead
    /\ preWrite' = None
    /\ UNCHANGED <<build, unit, cluster, unsold, limiter, door, productsFile, productCache, arrivals>>

\* the checkout the last step answered with success is sent once more, for
\* the same user, before anything else arrives
ArriveAgain(r) ==
    /\ \A o \in Reqs : ~InFlight(req[o])
    /\ answered.route \in LegacyCheckoutRoutes
    /\ answered.status = 200
    /\ Admit(r, [Idle EXCEPT !.route = answered.route, !.id = answered.id,
                             !.itemId = 1, !.again = TRUE])
    /\ UNCHANGED <<arrivals, limiter, door>>

\* POST /api/users/:id/cart arrives at a cart that is about full, one request
\* at a time: one more of the first item or one of an item the cart does not
\* have. The model stops adding once a cart holds more than CART_LIMIT.
ArriveAtFullCart(r) ==
    /\ \A o \in Reqs : ~InFlight(req[o])
    /\ \A u \in UserIds :
          /\ SumQuantities(usersFile[u].cartItems) <= CART_LIMIT
          /\ \A o \in ObjIds :
                heap[o] # None => SumQuantities(heap[o][u].cartItems) <= CART_LIMIT
    /\ \E route \in OptAddRoutes, id \in UserInputs, itemId \in {1, CART_LIMIT + 1} :
          Admit(r, [Idle EXCEPT !.route = route, !.id = id,
                                !.itemId = itemId, !.quantity = 1])
    /\ UNCHANGED <<arrivals, limiter, door>>

\* const { itemId, quantity = 1 } = req.body of part_001 and
\* const { itemId, quantity } = req.body of index.js: the handler's quantity
\* when the body has none. The default of part_001 gives 1; index.js keeps
\* undefined, which is falsy as 0 is, and its handler returns at !quantity.
QuantityWhenOmitted == IF build = "legacy" THEN unit ELSE 0

\* an add to cart arrives, one request at a time, its body with or without
\* a quantity (given: the keys of the body)
ArriveToAdd(r) ==
    /\ \A o \in Reqs : ~InFlight(req[o])
    /\ \E route \in CartRoutes \cap (LegacyAddRoutes \cup OptAddRoutes),
          id \in UserInputs,
          itemId \in IF build = "legacy" THEN ItemInputs ELSE OptItemInputs,
          sent \in 0..MaxQty :
          \E quantity \in {IF sent = 0 THEN QuantityWhenOmitted ELSE sent * unit} :
              /\ WithinCartCap(route, id, quantity)
              /\ Admit(r, [AddIdle EXCEPT
                              !.route = route, !.id = id, !.itemId = itemId,
                              !.quantity = quantity,
                              !.given = IF sent = 0 THEN {"itemId"}
                                        ELSE {"itemId", "quantity"}])
    /\ UNCHANGED <<arrivals, limiter, door>>

\* req.params.id of a product request: 0 stands for what is no positive
\* integer, the largest for a product the catalog does not have
ProductIdParams == 0..(Cardinality(ProductIds) + 1)

\* GET /api/products/:id arrives, one request at a time
ArriveForProduct(r) ==
    /\ \A o \in Reqs : ~InFlight(req[o])
    /\ \E route \in GetProductRoutes, id \in ProductIdParams :
          Admit(r, [ProductIdle EXCEPT !.route = route, !.id = id])
    /\ UNCHANGED <<arrivals, limiter, door>>

\* the rating of a comment request: numbers (0, 1, 2.5, 5, 6), strings,
\* true, null, or none at all
RatingInputs ==
    {Num(0), Num(2), Num(5), Num(10), Num(12), Str("3"), Str("x"), JTrue, JNull, Undefined}

\* the comment lists grow without bound: the model stops adding once the
\* catalog holds MaxComments comments, except to a list of COMMENT_CEILING
WithinComments(id) ==
    id \in ProductIds =>
        \/ Len(productsFile[id].comments) = COMMENT_CEILING
        \/ Len(productsFile[1].comments) + Len(productsFile[2].comments) < MaxComments

\* POST /api/products/:id/comments arrives, one request at a time
ArriveToComment(r) ==
    /\ \A o \in Reqs : ~InFlight(req[o])
    /\ \E route \in CommentRoutes, id \in ProductIdParams \ {0}, rating \in RatingInputs,
          b \in {<<"u", "t">>, <<"", "t">>, <<"u", "">>} :
          /\ WithinComments(id)
          /\ Admit(r, [ProductIdle EXCEPT !.route = route, !.id = id, !.user = b[1],
                                   !.text = b[2], !.rating = rating])
    /\ UNCHANGED <<arrivals, limiter, door>>

\* app.use(limiter) comes before every route: a request of client ip reaches
\* worker w, whose limiter counts it and answers 429 once the hits of the
\* window exceed max, without calling next(). A request let through on this
\* process (worker 1) is GET /api/users; what the handler of another worker
\* does with it is left out. The model sends RATE_MAX + 1 requests per IP
\* and window at most, MaxOtherHits from the second IP.
Limited(route) ==
    [Idle EXCEPT !.route = route, !.pc = "done", !.status = 429, !.cause = "limiter"]

ArriveLimited(r) ==
    /\ \A o \in Reqs : ~InFlight(req[o])
    /\ \E ip \in IPs, w \in 1..Len(limiter), route \in OptGetUsersRoutes :
          /\ door.seen[ip] <= (IF ip = 1 THEN RATE_MAX ELSE MaxOtherHits - 1)
          /\ limiter' = [limiter EXCEPT ![w][ip] = @ + 1]
          /\ door' = [seen |-> [door.seen EXCEPT ![ip] = @ + 1], ip |-> ip,
                      passed |-> limiter[w][ip] + 1 <= RATE_MAX]
          /\ IF limiter[w][ip] + 1 > RATE_MAX
             THEN /\ answered' = Limited(route)
                  /\ lastRead' = NoRead
                  /\ UNCHANGED <<build, unit, cluster, held, unsold, lost, preWrite, files, caches, req, written>>
             ELSE IF w = 1
             THEN Admit(r, [Idle EXCEPT !.route = route, !.id = 1, !.itemId = 1])
             ELSE /\ answered' = Idle
                  /\ lastRead' = NoRead
                  /\ UNCHANGED <<build, unit, cluster, held, unsold, lost, preWrite, files, caches, req, written>>
    /\ arrivals' = arrivals

\* windowMs after the first request of client ip, its hits are forgotten
WindowElapses ==
    /\ \A o \in Reqs : ~InFlight(req[o])
    /\ \E ip \in IPs :
          /\ door.seen[ip] > 0
          /\ limiter' = [w \in 1..Len(limiter) |-> [limiter[w] EXCEPT ![ip] = 0]]
          /\ door' = [seen |-> [door.seen EXCEPT ![ip] = 0], ip |-> 0, passed |-> FALSE]
    /\ answered' = Idle
    /\ lastRead' = NoRead
    /\ UNCHANGED <<build, unit, cluster, held, unsold, lost, preWrite, files, caches, req, written, arrivals>>

\* The file a pending read is for: users.json behind readUsers(),
\* products.json behind readProducts().
FileOf(pc) == IF pc = "readUsersFile" THEN "users" ELSE "products"

\* a failed read that falls back on the snapshot the cache still holds,
\* whatever its age
ReadFailsServingSnapshot(r) ==
    /\ req[r].pc \in {"readUsersFile", "readProductsFile"}
    /\ FileOf(req[r].pc) \in lost
    /\ IF req[r].pc = "readUsersFile" /\ userCache.data # 0
       THEN ResumeWithUsers(r, req[r], userCache.data, heap, userCache)
       ELSE /\ req' = [req EXCEPT ![r] = Idle]
            /\ answered' = Answered(Fail(req[r], "readFile"))
            /\ UNCHANGED <<userCache, heap>>
    /\ lastRead' = NoRead
    /\ UNCHANGED <<build, unit, cluster, held, unsold, limiter, door, lost, preWrite, files, productCache, written, arrivals>>

\* optimized readUsers()/readProducts(), cache miss, the file missing or not
\* JSON: fs.readFile or JSON.parse throws, the cache is not set, and the
\* handler's catch block answers 500
ReadFails(r) ==
    /\ req[r].pc \in {"readUsersFile", "readProductsFile"}
    /\ FileOf(req[r].pc) \in lost
    /\ req' = [req EXCEPT ![r] = Idle]
    /\ answered' = Answered(Fail(req[r], "readFile"))
    /\ lastRead' = NoRead
    /\ UNCHANGED <<build, unit, cluster, held, unsold, limiter, door, lost, preWrite, files, caches, written, arrivals>>

\* users.json or products.json is deleted or overwritten with what is no
\* JSON, from outside the process, while no request is in flight
FileIsLost ==
    /\ \A o \in Reqs : ~InFlight(req[o])
    /\ \E f \in {"users", "products"} \ lost : lost' = lost \cup {f}
    /\ answered' = Idle
    /\ lastRead' = NoRead
    /\ UNCHANGED <<build, unit, cluster, held, unsold, limiter, door, preWrite, files, caches, req, written, arrivals>>

\* writeFile rejects (disk full, permissions): the catch block answers 500
WriteFails(r) ==
    /\ req[r].pc \in {"writeProducts", "writeUsers"}
    /\ Commit(userCache, heap, [req EXCEPT ![r] = Idle])
    /\ answered' = Answered(Fail(req[r], "writeFile"))
    /\ lastRead' = NoRead
    /\ written' = FALSE
    /\ UNCHANGED <<build, unit, cluster, held, unsold, limiter, door, lost, preWrite, files, productCache, arrivals>>

\* one request at a time, its :id and :itemId any number: 0 stands for the
\* values that are not positive integers
ArriveWithAnyParams(r) ==
    /\ \A o \in Reqs : ~InFlight(req[o])
    /\ arrivals' = arrivals
    /\ Arrive(r, CartRoutes, {0} \cup UserInputs, {0} \cup OptItemInputs, 0..MaxQty)

\* the characters of "ann", "Ann", "bob", "ab", "a@x", "b@x", "ax", and two
\* passwords of 5 and 6 characters
Ann == <<"a", "n", "n">>
AnnCapital == <<"A", "n", "n">>
Bob == <<"b", "o", "b">>
TooShortName == <<"a", "b">>
AnnMail == <<"a", "@", "x">>
BobMail == <<"b", "@", "x">>
NoAtMail == <<"a", "x">>
ShortPassword == [k \in 1..5 |-> "p"]
GoodPassword == [k \in 1..6 |-> "p"]

\* req.body of a user request: complete and valid, one field invalid or
\* missing, or (for PATCH) one field only
UserBodies ==
    [username : {Ann, AnnCapital, Bob}, email : {AnnMail, BobMail}, password : {GoodPassword}]
      \cup {[username |-> <<>>, email |-> AnnMail, password |-> GoodPassword],
            [username |-> TooShortName, email |-> AnnMail, password |-> GoodPassword],
            [username |-> Ann, email |-> NoAtMail, password |-> GoodPassword],
            [username |-> Ann, email |-> AnnMail, password |-> ShortPassword],
            [username |-> <<>>, email |-> BobMail, password |-> <<>>],
            [username |-> Bob, email |-> <<>>, password |-> <<>>]}

\* the bodies of the user requests that may overlap: two complete ones, one
\* with a username only
FewUserBodies ==
    {[username |-> Ann, email |-> AnnMail, password |-> GoodPassword],
     [username |-> Bob, email |-> BobMail, password |-> GoodPassword],
     [username |-> Bob, email |-> <<>>, password |-> <<>>]}

\* req.params.id of a user request; 0 stands for what is no positive integer
UserIdParams == 0..MaxUserId

\* ids grow without bound as users are created and deleted: the model stops
\* creating once an id has reached MaxUserId
WithinUserIds(route) ==
    route \in CreateUserRoutes =>
        /\ MaxId(usersFile) < MaxUserId
        /\ \A o \in ObjIds : heap[o] # None => MaxId(heap[o]) < MaxUserId

\* a user request arrives, its parameters and body any of the given
ArriveUser(r, ids, bodies) ==
    /\ FreeSlot(r)
    /\ \E route \in UserRoutes, id \in ids, b \in bodies :
          /\ route \in CreateUserRoutes => id = 0 /\ b.password # <<>>
          /\ route \in DeleteUserRoutes => b.password = <<>> /\ b.email = <<>>
          /\ route \notin CreateUserRoutes => id # 0 \/ b.password = <<>>
          /\ WithinUserIds(route)
          /\ Admit(r, [UserIdle EXCEPT !.route = route, !.id = id, !.username = b.username,
                                   !.email = b.email, !.password = b.password])
          /\ UNCHANGED <<limiter, door>>

\* user requests may overlap, MaxArrivals in all
ArriveForUser(r) ==
    /\ arrivals < MaxArrivals
    /\ arrivals' = arrivals + 1
    /\ ArriveUser(r, 0..2, FewUserBodies)

\* one user request at a time, MaxArrivals in all, of any body
ArriveForUserAlone(r) ==
    /\ \A o \in Reqs : ~InFlight(req[o])
    /\ arrivals < MaxArrivals
    /\ arrivals' = arrivals + 1
    /\ ArriveUser(r, UserIdParams, UserBodies)

\* a cart request of the optimized build for either of two users, one
\* request at a time, MaxArrivals in all
ArriveForEitherUser(r) ==
    /\ \A o \in Reqs : ~InFlight(req[o])
    /\ arrivals < MaxArrivals
    /\ arrivals' = arrivals + 1
    /\ \E route \in OptAddRoutes \cup OptPatchRoutes \cup OptDeleteRoutes,
          id \in DOMAIN usersFile, quantity \in 0..MaxQty :
          Admit(r, [Idle EXCEPT !.route = route, !.id = id,
                                !.itemId = 1, !.quantity = quantity])
    /\ UNCHANGED <<limiter, door>>

\* one request at a time, each a GET /api/users
ArriveToGetUsers(r) ==
    /\ \A o \in Reqs : ~InFlight(req[o])
    /\ arrivals' = arrivals
    /\ Arrive(r, OptGetUsersRoutes, UserIds, {1}, {0})

\* fault variant: the workers share one cache, a write replaces its array
OtherWorkerShares(snapshot, value) == value
\* userCache is a variable of the module, one per worker process: what
\* another worker writes leaves the array this process has cached as it is
OtherWorkerKeeps(snapshot, value) == snapshot

\* what a cart operation of another worker turns users.json into: an add
\* of the first product or the removal of its line
OtherWorkerValues ==
    LET cart == usersFile[1].cartItems IN
    {SetCart(usersFile, 1, AddLine(cart, 1, unit * k)) :
        k \in {j \in 1..MaxQty : SumQuantities(cart) + unit * j <= MaxCartQty}}
      \cup {SetCart(usersFile, 1, RemoveItem(cart, 1))}

\* another worker of the cluster completes the writeFile of its writeUsers
OtherWorkerWrites ==
    /\ build = "optimized"
    /\ \E value \in OtherWorkerValues :
          /\ value # usersFile
          /\ usersFile' = value
          /\ held' = Remember(held, value)
          /\ lost' = lost \ {"users"}
          /\ IF userCache.data # 0
             THEN /\ heap' = [heap EXCEPT ![userCache.data] = OtherWorkerKeeps(@, value)]
                  /\ preWrite' = IF IsCacheValid(TRUE, userCache.age)
                                 THEN heap[userCache.data] ELSE None
             ELSE /\ heap' = heap
                  /\ preWrite' = None
    /\ req' = [s \in Reqs |-> IF InFlight(req[s]) THEN [req[s] EXCEPT !.clean = FALSE]
                              ELSE req[s]]
    /\ answered' = Idle
    /\ lastRead' = NoRead
    /\ UNCHANGED <<build, unit, cluster, unsold, limiter, door, productsFile, userCache, productCache, written, arrivals>>

\* a snapshot TickMs older, up to CACHE_TTL
Older(cache, hasData) ==
    IF hasData /\ cache.age < CACHE_TTL THEN [cache EXCEPT !.age = @ + TickMs] ELSE cache

\* time passes: Date.now() grows by TickMs
Tick ==
    /\ IsCacheValid(userCache.data # 0, userCache.age)
          \/ IsCacheValid(productCache.data # None, productCache.age)
    /\ userCache' = Older(userCache, userCache.data # 0)
    /\ productCache' = Older(productCache, productCache.data # None)
    /\ answered' = Idle
    /\ lastRead' = NoRead
    /\ UNCHANGED <<build, unit, cluster, held, unsold, limiter, door, lost, preWrite, files, heap, req, written, arrivals>>

\* ------------------------------------------------------------------ spec

UserRecord(cart) == [cartItems |-> cart, count |-> SumQuantities(cart)]

\* The state at process start. The stock of the first product is any of
\* 0..MaxStock; the other products start with MaxStock (the optimized build
\* never reads a stock, so there the first product starts with 1). The cart of users.json is empty or
\* holds one line, of an existing product or of one products.json does not
\* have: the optimized build's add does not look the product up, and both
\* builds share the file.
Start(n) ==
    /\ build \in {"legacy", "optimized"}
    /\ unit = n
    /\ productsFile \in [ProductIds -> [stock : {n * k : k \in 0..MaxStock}]]
    /\ \A p \in ProductIds :
          \/ p = 1 /\ build = "legacy"
          \/ productsFile[p].stock = n * (IF p = 1 THEN 1 ELSE MaxStock)
    /\ \E c \in {<<>>, <<Line(1, n)>>, <<Line(MissingItem, n)>>} :
          usersFile = [u \in UserIds |-> UserRecord(c)]
    /\ userCache = [data |-> 0, age |-> 0]
    /\ productCache = [data |-> None, age |-> 0]
    /\ heap = [o \in ObjIds |-> None]
    /\ req = [r \in Reqs |-> Idle]
    /\ answered = Idle
    /\ lastRead = NoRead
    /\ written = FALSE
    /\ arrivals = 0
    /\ preWrite = None
    /\ lost = {}
    /\ door = Quiet

\* a stored comment, and the lists of up to n of them
AComment(rating) == [user |-> "u", text |-> "t", rating |-> rating]
CommentLists(n, ratings) ==
    UNION {[1..k -> {AComment(x) : x \in ratings}] : k \in 0..n}

\* products.json with comments: the first product has the given list, the
\* second has no comments property
Catalog(comments) ==
    /\ unit = 1
    /\ productsFile = <<[stock |-> MaxStock, hasComments |-> TRUE, comments |-> comments],
                        [stock |-> MaxStock, hasComments |-> FALSE, comments |-> <<>>]>>
    /\ usersFile = [u \in UserIds |-> UserRecord(<<>>)]
    /\ userCache = [data |-> 0, age |-> 0]
    /\ productCache = [data |-> None, age |-> 0]
    /\ heap = [o \in ObjIds |-> None]
    /\ req = [r \in Reqs |-> Idle]
    /\ answered = Idle
    /\ lastRead = NoRead
    /\ written = FALSE
    /\ arrivals = 0
    /\ preWrite = None
    /\ lost = {}
    /\ limiter = <<NoHits>>
    /\ door = Quiet
    /\ held = {}
    /\ unsold = None /\ cluster = NoCluster

\* the optimized index.js, the cart holding one of each of the items 1..n
\* with n one short of CART_LIMIT or CART_LIMIT itself
FullCartInit ==
    /\ build = "optimized"
    /\ unit = 1
    /\ productsFile = [p \in ProductIds |-> [stock |-> MaxStock]]
    /\ \E n \in {CART_LIMIT - 1, CART_LIMIT} :
          usersFile = [u \in UserIds |-> UserRecord([i \in 1..n |-> Line(i, 1)])]
    /\ userCache = [data |-> 0, age |-> 0]
    /\ productCache = [data |-> None, age |-> 0]
    /\ heap = [o \in ObjIds |-> None]
    /\ req = [r \in Reqs |-> Idle]
    /\ answered = Idle
    /\ lastRead = NoRead
    /\ written = FALSE
    /\ arrivals = 0
    /\ preWrite = None
    /\ lost = {}
    /\ limiter = <<NoHits>>
    /\ door = Quiet
    /\ held = {}
    /\ unsold = None /\ cluster = NoCluster

\* the optimized index.js over a catalog whose first product has up to
\* MaxComments comments, their ratings any of 0, 1, 2, 5
RatingInit ==
    /\ build = "optimized"
    /\ \E comments \in CommentLists(MaxComments, {0, 1, 2, 5}) : Catalog(comments)

\* the legacy build over a catalog whose first product has no comment, one
\* comment or COMMENT_CEILING comments
CommentsInit ==
    /\ build = "legacy"
    /\ \E comments \in CommentLists(1, {2}) \cup {[k \in 1..COMMENT_CEILING |-> AComment(5)]} :
          Catalog(comments)

\* every number in the files and in the request bodies is an integer
Init == Start(1) /\ limiter = <<NoHits>> /\ held = {} /\ unsold = None /\ cluster = NoCluster

\* the optimized index.js at process start, users.json holding no user, one
\* or two: [id, username, email] is all the user handlers look at
UsersInit ==
    /\ build = "optimized"
    /\ unit = 1
    /\ productsFile = [p \in ProductIds |-> [stock |-> MaxStock]]
    /\ \E n \in 0..2 :
          usersFile = SubSeq(<<[id |-> 1, username |-> Ann, email |-> AnnMail],
                               [id |-> 2, username |-> Bob, email |-> BobMail]>>, 1, n)
    /\ userCache = [data |-> 0, age |-> 0]
    /\ productCache = [data |-> None, age |-> 0]
    /\ heap = [o \in ObjIds |-> None]
    /\ req = [r \in Reqs |-> Idle]
    /\ answered = Idle
    /\ lastRead = NoRead
    /\ written = FALSE
    /\ arrivals = 0
    /\ preWrite = None
    /\ lost = {}
    /\ limiter = <<NoHits>>
    /\ door = Quiet
    /\ held = {}
    /\ unsold = None /\ cluster = NoCluster

\* the process runs the legacy index.js
LegacyInit == Init /\ build = "legacy"

\* the process runs the optimized index.js
OptInit == Init /\ build = "optimized"

\* the optimized index.js, request bodies carrying multiples of 0.5
OptHalvesInit == Start(2) /\ limiter = <<NoHits>> /\ held = {} /\ unsold = None /\ cluster = NoCluster /\ build = "optimized"

LegacySteps(r) ==
    \/ LegacyReadUsers(r)
    \/ LegacyReadProducts(r)
    \/ LegacyWriteProducts(r)
    \/ LegacyWriteUsers(r)

OptSteps(r) ==
    \/ OptReadUsersFile(r)
    \/ OptReadUsersResolve(r)
    \/ OptWriteUsers(r)

OptProductSteps(r) ==
    \/ OptReadProductsFile(r)
    \/ OptReadProductsResolve(r)

\* the legacy build, requests overlapping
LegacyNext == \E r \in Reqs : ArriveAnyTime(r) \/ LegacySteps(r) \/ WriteFails(r)
LegacySpec == LegacyInit /\ [][LegacyNext]_vars

\* the legacy build, one request at a time
LegacySeqNext == \E r \in Reqs : ArriveAlone(r) \/ LegacySteps(r) \/ WriteFails(r)
LegacySeqSpec == LegacyInit /\ [][LegacySeqNext]_vars

\* the optimized build, requests overlapping
OptNext == (\E r \in Reqs : ArriveAnyTime(r) \/ OptSteps(r) \/ WriteFails(r)) \/ Tick
OptSpec == OptInit /\ [][OptNext]_vars

\* the optimized build, one request at a time
OptSeqNext == (\E r \in Reqs : ArriveAlone(r) \/ OptSteps(r) \/ WriteFails(r)) \/ Tick
OptSeqSpec == OptInit /\ [][OptSeqNext]_vars

\* the optimized build, one request at a time, quantities in halves
OptHalvesSpec == OptHalvesInit /\ [][OptSeqNext]_vars

\* the optimized build, one request at a time, path parameters of any value
OptParamsNext ==
    (\E r \in Reqs : ArriveWithAnyParams(r) \/ OptSteps(r) \/ WriteFails(r)) \/ Tick
OptParamsSpec == OptInit /\ [][OptParamsNext]_vars

\* the optimized build serving user creations, updates and deletions that
\* may overlap
UsersNext == (\E r \in Reqs : ArriveForUser(r) \/ OptSteps(r) \/ WriteFails(r)) \/ Tick
UsersSpec == UsersInit /\ [][UsersNext]_vars

\* the optimized build serving user requests one at a time
UsersSeqNext ==
    (\E r \in Reqs : ArriveForUserAlone(r) \/ OptSteps(r) \/ WriteFails(r)) \/ Tick
UsersSeqSpec == UsersInit /\ [][UsersSeqNext]_vars

\* one worker of the optimized build serving GET /api/users while another
\* worker writes users.json
OptWorkersNext ==
    \/ \E r \in Reqs : ArriveToGetUsers(r) \/ OptReadUsersFile(r) \/ OptReadUsersResolve(r)
    \/ OtherWorkerWrites
    \/ Tick
OptWorkersSpec == OptInit /\ [][OptWorkersNext]_vars

\* either build, one request at a time
SeqNext ==
    \/ \E r \in Reqs : ArriveAlone(r) \/ LegacySteps(r) \/ OptSteps(r) \/ WriteFails(r)
    \/ Tick
SeqSpec == Init /\ [][SeqNext]_vars

\* the optimized build, one request at a time, reading users and products
OptReadNext ==
    \/ \E r \in Reqs : ArriveToRead(r) \/ OptSteps(r) \/ OptProductSteps(r) \/ WriteFails(r)
    \/ Tick
OptReadSpec == OptInit /\ [][OptReadNext]_vars

\* The optimized index.js behind its rate limiter: one process, or with
\* ENABLE_CLUSTERING a primary that forks a worker per CPU (two here), each
\* of which runs the module and so has a limiter of its own.
LimiterInit ==
    /\ Start(1)
    /\ build = "optimized"
    /\ limiter \in {<<NoHits>>, <<NoHits, NoHits>>}
    /\ held = {}
    /\ unsold = None /\ cluster = NoCluster

LimiterNext ==
    \/ \E r \in Reqs : ArriveLimited(r) \/ OptReadUsersFile(r) \/ OptReadUsersResolve(r)
    \/ WindowElapses
LimiterSpec == LimiterInit /\ [][LimiterNext]_vars

\* the legacy build, one request at a time, checkouts repeated
CheckoutNext ==
    \E r \in Reqs : ArriveAlone(r) \/ ArriveAgain(r) \/ LegacySteps(r) \/ WriteFails(r)
CheckoutSpec == LegacyInit /\ [][CheckoutNext]_vars

\* the optimized build adding to a cart that is about full
FullCartNext ==
    (\E r \in Reqs : ArriveAtFullCart(r) \/ OptSteps(r) \/ WriteFails(r)) \/ Tick
FullCartSpec == FullCartInit /\ [][FullCartNext]_vars

\* the optimized build serving GET /api/products/:id
RatingNext ==
    (\E r \in Reqs : ArriveForProduct(r) \/ OptProductSteps(r)) \/ Tick
RatingSpec == RatingInit /\ [][RatingNext]_vars

\* the legacy build serving the comment route and GET /api/products/:id
CommentsNext ==
    \E r \in Reqs : \/ ArriveToComment(r) \/ ArriveForProduct(r)
                     \/ LegacyReadProducts(r) \/ LegacyWriteProducts(r) \/ WriteFails(r)
CommentsSpec == CommentsInit /\ [][CommentsNext]_vars

\* the same, with files that get lost
OptLostNext ==
    \/ \E r \in Reqs : ArriveToRead(r) \/ OptSteps(r) \/ OptProductSteps(r)
                          \/ ReadFails(r) \/ WriteFails(r)
    \/ FileIsLost
    \/ Tick
OptLostSpec == OptInit /\ [][OptLostNext]_vars

\* either build serving adds to cart, one at a time, some without quantity
AddNext ==
    \/ \E r \in Reqs : \/ ArriveToAdd(r)
                       \/ LegacyReadUsers(r) \/ LegacyReadProducts(r) \/ LegacyWriteUsers(r)
                       \/ OptSteps(r) \/ WriteFails(r)
    \/ Tick
AddSpec == Init /\ [][AddNext]_vars

\* the optimized build, requests overlapping, the contents of users.json
\* remembered
HeldInit ==
    /\ Start(1) /\ limiter = <<NoHits>> /\ build = "optimized"
    /\ held = {usersFile}
    /\ unsold = None /\ cluster = NoCluster
HeldSpec == HeldInit /\ [][OptNext]_vars

\* the legacy build with every write succeeding, what is left unsold kept:
\* requests overlapping, and one at a time
SalesInit ==
    /\ Start(1) /\ limiter = <<NoHits>> /\ build = "legacy"
    /\ held = {}
    /\ unsold = [p \in ProductIds |-> productsFile[p].stock]
    /\ cluster = NoCluster
SalesNext == \E r \in Reqs : ArriveAnyTime(r) \/ LegacySteps(r)
SalesSpec == SalesInit /\ [][SalesNext]_vars
SalesSeqNext == \E r \in Reqs : ArriveAlone(r) \/ LegacySteps(r)
SalesSeqSpec == SalesInit /\ [][SalesSeqNext]_vars

\* one worker of a cluster serving cart requests one at a time, every write
\* succeeding, while another worker writes users.json; and the same
\* process without another worker
ClusterNext ==
    \/ \E r \in Reqs : ArriveAlone(r) \/ OptSteps(r)
    \/ OtherWorkerWrites
    \/ Tick
ClusterSpec == OptInit /\ [][ClusterNext]_vars
OneWorkerNext == (\E r \in Reqs : ArriveAlone(r) \/ OptSteps(r)) \/ Tick
OneWorkerSpec == OptInit /\ [][OneWorkerNext]_vars

\* either build, one request at a time, path parameters of any value, every
\* write succeeding
RejectNext ==
    \/ \E r \in Reqs : ArriveWithAnyParams(r) \/ LegacySteps(r) \/ OptSteps(r)
    \/ Tick
RejectSpec == Init /\ [][RejectNext]_vars

\* ------------------------------------------------- the clustered start
\* the workers that run: forked and not exited
Live == {w \in WorkerIds : cluster.worker[w] \in {"starting", "listening"}}
\* the workers whose 'exit' event the primary has yet to handle
Exited == {w \in WorkerIds : cluster.worker[w] = "exited"}
NeverForked == {w \in WorkerIds : cluster.worker[w] = "none"}
\* cluster.fork() n times: the n lowest ids never used start
Fork(worker, n) ==
    [w \in WorkerIds |->
        IF /\ worker[w] = "none"
           /\ Cardinality({v \in WorkerIds : v < w /\ worker[v] = "none"}) < n
        THEN "starting" ELSE worker[w]]

\* startServer(): app.listen
startServer(pc) == "listening"

\* the primary runs index.js to its end: with ENABLE_CLUSTERING it forks
\* numCPUs workers and registers the 'exit' listener, without it it
\* starts the server itself
Main ==
    /\ cluster.primary = "start"
    /\ cluster' = IF cluster.enabled
                  THEN [cluster EXCEPT !.primary = "forked",
                                       !.worker = Fork(@, NumCPUs)]
                  ELSE [cluster EXCEPT !.primary = startServer(@)]
    /\ UNCHANGED <<build, unit, held, unsold, limiter, door, lost, preWrite, files, caches, req, answered, lastRead, written, arrivals>>

\* a worker runs index.js to its end: cluster.isPrimary is false, it starts
\* the server
WorkerMain(w) ==
    /\ cluster.worker[w] = "starting"
    /\ cluster' = [cluster EXCEPT !.worker[w] = startServer(@)]
    /\ UNCHANGED <<build, unit, held, unsold, limiter, door, lost, preWrite, files, caches, req, answered, lastRead, written, arrivals>>

\* a worker dies, MaxExits of them in all
WorkerExits(w) ==
    /\ w \in Live
    /\ Cardinality(WorkerIds \ (Live \cup NeverForked)) < MaxExits
    /\ cluster' = [cluster EXCEPT !.worker[w] = "exited"]
    /\ UNCHANGED <<build, unit, held, unsold, limiter, door, lost, preWrite, files, caches, req, answered, lastRead, written, arrivals>>

\* a listener that forks nothing
OnExitWithoutFork(w) ==
    /\ cluster.primary = "forked"
    /\ w \in Exited
    /\ cluster' = [cluster EXCEPT !.worker[w] = "gone"]
    /\ UNCHANGED <<build, unit, held, unsold, limiter, door, lost, preWrite, files, caches, req, answered, lastRead, written, arrivals>>

\* the primary's 'exit' listener: cluster.fork()
OnExit(w) ==
    /\ cluster.primary = "forked"
    /\ w \in Exited
    /\ cluster' = [cluster EXCEPT !.worker = Fork([@ EXCEPT ![w] = "gone"], 1)]
    /\ UNCHANGED <<build, unit, held, unsold, limiter, door, lost, preWrite, files, caches, req, answered, lastRead, written, arrivals>>

\* the processes that called app.listen
Listening ==
    {w \in WorkerIds : cluster.worker[w] = "listening"}
        \cup (IF cluster.primary = "listening" THEN {Primary} ELSE {})

\* a connection is accepted by a process that listens
Serve(p) ==
    /\ p \in Listening
    /\ cluster' = [cluster EXCEPT !.served = @ \cup {p}]
    /\ UNCHANGED <<build, unit, held, unsold, limiter, door, lost, preWrite, files, caches, req, answered, lastRead, written, arrivals>>

\* node index.js, with ENABLE_CLUSTERING set or not, nothing run yet
PrimaryInit ==
    /\ Start(1) /\ limiter = <<NoHits>> /\ held = {} /\ unsold = None
    /\ build = "optimized"
    /\ usersFile = [u \in UserIds |-> UserRecord(<<>>)]
    /\ \E e \in BOOLEAN : cluster = [NoCluster EXCEPT !.enabled = e, !.primary = "start"]
PrimaryNext ==
    \/ Main
    \/ \E w \in WorkerIds : WorkerMain(w) \/ WorkerExits(w) \/ OnExit(w)
    \/ \E p \in WorkerIds \cup {Primary} : Serve(p)
PrimarySpec == PrimaryInit /\ [][PrimaryNext]_vars
\* the event loop of the primary runs its script and delivers every 'exit'
\* event
PrimaryFairSpec ==
    PrimarySpec /\ WF_vars(Main) /\ \A w \in WorkerIds : WF_vars(OnExit(w))

\* the optimized build over a users.json of two users, each with a name
\* beside the cart and its count; the first user's cart is empty or holds
\* one line
TwoUsersInit ==
    /\ build = "optimized"
    /\ unit = 1
    /\ productsFile = [p \in ProductIds |-> [stock |-> MaxStock]]
    /\ \E c \in {<<>>, <<Line(1, 1)>>} :
          usersFile = <<[cartItems |-> c, count |-> SumQuantities(c), name |-> "u1"],
                        [cartItems |-> <<>>, count |-> 0, name |-> "u2"]>>
    /\ userCache = [data |-> 0, age |-> 0]
    /\ productCache = [data |-> None, age |-> 0]
    /\ heap = [o \in ObjIds |-> None]
    /\ req = [r \in Reqs |-> Idle]
    /\ answered = Idle
    /\ lastRead = NoRead
    /\ written = FALSE
    /\ arrivals = 0
    /\ preWrite = None
    /\ lost = {}
    /\ limiter = <<NoHits>>
    /\ door = Quiet
    /\ held = {}
    /\ unsold = None /\ cluster = NoCluster
TwoUsersNext ==
    (\E r \in Reqs : ArriveForEitherUser(r) \/ OptSteps(r) \/ WriteFails(r)) \/ Tick
TwoUsersSpec == TwoUsersInit /\ [][TwoUsersNext]_vars

\* ------------------------------------------------------------ properties

\* the cart of the request's user in a users collection
CartIn(users, q) == users[q.id].cartItems

\* the handler read both files and found its user
ReadBoth(q) ==
    /\ q.users0 # None
    /\ q.products0 # None
    /\ q.id \in DOMAIN q.users0

\* a cart line the products collection cannot serve
LineFails(products, ci) ==
    \/ ci.itemId \notin DOMAIN products
    \/ products[ci.itemId].stock < ci.quantity

\* the quantity a cart holds of an item, 0 when it has no line of it
RECURSIVE QuantityOf(_, _)
QuantityOf(cartItems, itemId) ==
    IF cartItems = <<>> THEN 0
    ELSE (IF Head(cartItems).itemId = itemId THEN Head(cartItems).quantity ELSE 0)
            + QuantityOf(Tail(cartItems), itemId)

\* a checkout that reached its validation loop with a line that fails it
CheckoutWithBadLine(q) ==
    /\ q.route \in LegacyCheckoutRoutes
    /\ ReadBoth(q)
    /\ \E k \in 1..Len(CartIn(q.users0, q)) :
          LineFails(q.products0, CartIn(q.users0, q)[k])

\* a checkout that reached its validation loop and every line passes it
CheckoutWithGoodLines(q) ==
    /\ q.route \in LegacyCheckoutRoutes
    /\ ReadBoth(q)
    /\ CartIn(q.users0, q) # <<>>
    /\ \A k \in 1..Len(CartIn(q.users0, q)) :
          ~LineFails(q.products0, CartIn(q.users0, q)[k])

\* C1: a checkout whose cart holds a line for a missing product, or a line
\* whose quantity exceeds the stock, answers 400 and both files are what they
\* were when it read them: no stock, cart or count changed, nothing written.
C1_CheckoutRejectedChangesNothing ==
    CheckoutWithBadLine(answered) =>
        /\ answered.status = 400
        /\ productsFile = answered.products0
        /\ usersFile = answered.users0

C1_Witness ==
    /\ CheckoutWithBadLine(answered)
    /\ answered.status = 400
    /\ Len(CartIn(answered.users0, answered)) = 2
    /\ ~LineFails(answered.products0, CartIn(answered.users0, answered)[1])

\* C2: a checkout whose every line has sufficient stock answers 200 (unless a
\* file write fails); then every product's persisted stock is the stock read
\* less the quantity of its line, products without a line keep their stock,
\* the user's cart is empty and the derived count is 0.
C2_CheckoutDecrementsAndClears ==
    CheckoutWithGoodLines(answered) =>
        /\ answered.status = 200 \/ answered.cause = "writeFile"
        /\ answered.status = 200 =>
              /\ \A p \in DOMAIN productsFile :
                    productsFile[p].stock = answered.products0[p].stock
                        - QuantityOf(CartIn(answered.users0, answered), p)
              /\ CartIn(usersFile, answered) = <<>>
              /\ usersFile[answered.id].count = 0

C2_Witness ==
    /\ CheckoutWithGoodLines(answered)
    /\ answered.status = 200
    /\ \E p, o \in DOMAIN productsFile :
          /\ QuantityOf(CartIn(answered.users0, answered), p) = MaxQty
          /\ QuantityOf(CartIn(answered.users0, answered), o) = 0
          /\ productsFile[o].stock > 0

\* the routes that add to a cart, in either build
AddRoutes == LegacyAddRoutes \cup OptAddRoutes

\* the routes that change a cart, in either build
CartChangeRoutes ==
    AddRoutes \cup LegacyPatchRoutes \cup LegacyDeleteRoutes \cup LegacyCheckoutRoutes
        \cup OptPatchRoutes \cup OptDeleteRoutes

\* C3: an add to cart is rejected with 400, the cart unchanged, when the
\* product does not exist or the quantity already in the cart plus the
\* requested one exceeds the stock; after a successful add the line's
\* quantity is at most the stock.
C3_AddRejectedBeyondStock ==
    (/\ answered.route \in AddRoutes
     /\ answered.quantity >= 1
     /\ answered.users0 # None
     /\ answered.id \in DOMAIN answered.users0) =>
        LET before == QuantityOf(CartIn(answered.users0, answered), answered.itemId) IN
        /\ (\/ answered.itemId \notin DOMAIN productsFile
            \/ before + answered.quantity > productsFile[answered.itemId].stock) =>
                /\ answered.status = 400
                /\ usersFile = answered.users0
        /\ answered.status = SuccessStatus(answered.route) =>
                /\ answered.itemId \in DOMAIN productsFile
                /\ QuantityOf(CartIn(usersFile, answered), answered.itemId)
                      <= productsFile[answered.itemId].stock

\* every user's derived count is the sum of the quantities of the cart lines
CountIsSum(users) ==
    \A u \in DOMAIN users : users[u].count = SumQuantities(users[u].cartItems)

\* C4: after the response to every cart add, quantity update, item removal
\* and checkout, each user's stored derived count equals the sum of the
\* quantities of the user's cart lines, in the users file and in the cache.
C4_CountFollowsCart ==
    answered.route \in CartChangeRoutes =>
        /\ CountIsSum(usersFile)
        /\ userCache.data # 0 => CountIsSum(heap[userCache.data])

C4_Witness ==
    /\ answered.route \in OptPatchRoutes
    /\ answered.status = 200
    /\ userCache.data # 0
    /\ Len(CartIn(heap[userCache.data], answered)) = 2
    /\ usersFile[answered.id].count = MaxCartQty

\* C5: when the file write of a mutating operation fails, the operation
\* answers 500, the file was not replaced and the cached snapshot is what it
\* was when the operation read it.
C5_FailedWriteChangesNothing ==
    answered.cause = "writeFile" =>
        /\ answered.status = 500
        /\ answered.replaced = None
        /\ userCache.data # 0 => heap[userCache.data] = answered.users0

\* no writeUsers is under way
NoWriteUnderWay == \A r \in Reqs : req[r].pc # "writeUsers"

\* C6: once a writeUsers has completed, with no other write under way, the
\* cache holds exactly the collection that was written; and a read that
\* starts after it, before a later write, returns the written collection,
\* never an earlier one.
C6_CacheHoldsLastWrite ==
    /\ (/\ answered.route \in CartChangeRoutes
        /\ answered.status = 200
        /\ answered.replaced # None
        /\ NoWriteUnderWay) =>
            /\ userCache.data # 0
            /\ userCache.age = 0
            /\ heap[userCache.data] = usersFile
    /\ (/\ answered.route \in OptGetUsersRoutes
        /\ answered.status = 200
        /\ written
        /\ answered.clean
        /\ NoWriteUnderWay) =>
            answered.users = usersFile

\* C7: readUsers() / readProducts() return a cached snapshot only when it is
\* strictly less than CACHE_TTL old; otherwise the content read from the file.
C7_CachedReadsAreYoung ==
    lastRead.from = "cache" => lastRead.age < CACHE_TTL

C7_Witness ==
    /\ lastRead = CacheRead(TickMs)
    /\ answered.route \in OptGetProductsRoutes
    /\ userCache.data # 0
    /\ userCache.age = CACHE_TTL

\* C8: a successful add persists the cart of its own snapshot with its own
\* line added and nothing else: whatever another request wrote after the
\* snapshot was read is gone (a lost update, reached in C8_Witness).
C8_WritePersistsOwnSnapshot ==
    (answered.route \in LegacyAddRoutes /\ answered.status = 201) =>
        \A i \in ItemInputs :
            QuantityOf(CartIn(usersFile, answered), i)
                = QuantityOf(CartIn(answered.users0, answered), i)
                    + (IF i = answered.itemId THEN answered.quantity ELSE 0)

\* two adds overlapped and both answered 201; the line the first one
\* persisted is no longer in users.json
C8_Witness ==
    /\ answered.route \in LegacyAddRoutes
    /\ answered.status = 201
    /\ ~answered.clean
    /\ \E i \in ProductIds :
          /\ i # answered.itemId
          /\ QuantityOf(CartIn(answered.replaced, answered), i)
                > QuantityOf(CartIn(answered.users0, answered), i)
          /\ QuantityOf(CartIn(usersFile, answered), i) = 0

\* C9: from non-negative integer stock, under any interleaving of cart adds,
\* quantity updates, item removals and checkouts, every persisted stock is an
\* integer >= 0.
C9_StockNeverNegative ==
    \A p \in DOMAIN productsFile : productsFile[p].stock \in Nat

\* a checkout sold every unit of a product while another request, which
\* emptied the same cart, completed between its read and its write
C9_Witness ==
    /\ answered.route \in LegacyCheckoutRoutes
    /\ answered.status = 200
    /\ ~answered.clean
    /\ \E p \in DOMAIN productsFile :
          /\ productsFile[p].stock = 0
          /\ CartIn(answered.replaced, answered) = <<>>
          /\ QuantityOf(CartIn(answered.users0, answered), p) = answered.products0[p].stock
          /\ answered.products0[p].stock > 0

\* the cart of the request's user before the request: as the handler read
\* it, or as the file holds it when the handler never got to read it
CartBefore(q) ==
    IF q.users0 # None THEN CartIn(q.users0, q) ELSE CartIn(usersFile, q)

\* C10: on the unprefixed routes, with an empty cart and a product of stock
\* n, POST /users/1/cart with quantity n + 1 answers 400 and with quantity n
\* answers 201, the cart then holding one line of quantity n.
C10_UnprefixedAddScenario ==
    (/\ answered.route = "POST /users/:id/cart"
     /\ answered.id \in UserIds
     /\ answered.products0 # None
     /\ answered.itemId \in DOMAIN answered.products0
     /\ CartBefore(answered) = <<>>) =>
        LET stock == answered.products0[answered.itemId].stock IN
        /\ answered.quantity = stock + 1 => answered.status = 400
        /\ (answered.quantity = stock /\ answered.cause # "writeFile") =>
              /\ answered.status = 201
              /\ CartIn(usersFile, answered) = <<Line(answered.itemId, stock)>>

\* no two lines of the cart name the same item
NoDuplicateLines(cartItems) ==
    \A j, k \in 1..Len(cartItems) :
        j # k => cartItems[j].itemId # cartItems[k].itemId

\* every cart of a users collection is free of duplicate lines
NoDuplicatesIn(users) ==
    \A u \in DOMAIN users : NoDuplicateLines(users[u].cartItems)

\* C11: an add of an item that already has a line raises that line's
\* quantity by the requested quantity and adds no line; with requests served
\* one after the other from carts without duplicates, a cart never holds two
\* lines of the same item, in the users file and in the cache.
C11_AddMergesIntoLine ==
    /\ NoDuplicatesIn(usersFile)
    /\ userCache.data # 0 => NoDuplicatesIn(heap[userCache.data])
    /\ (/\ answered.route \in AddRoutes
        /\ answered.status \in {200, 201}
        /\ QuantityOf(CartBefore(answered), answered.itemId) > 0) =>
           LET before == CartBefore(answered)
               after == CartIn(usersFile, answered) IN
           /\ Len(after) = Len(before)
           /\ \A k \in 1..Len(before) :
                 /\ after[k].itemId = before[k].itemId
                 /\ after[k].quantity =
                       IF before[k].itemId = answered.itemId
                       THEN before[k].quantity + answered.quantity
                       ELSE before[k].quantity

C11_Witness ==
    /\ answered.route \in AddRoutes
    /\ answered.status \in {200, 201}
    /\ Len(CartBefore(answered)) = 2
    /\ QuantityOf(CartBefore(answered), answered.itemId) = 1
    /\ QuantityOf(CartIn(usersFile, answered), answered.itemId) = 1 + answered.quantity

\* every line of every cart of a users collection holds an integer >= 1
QuantitiesArePositiveIntegers(users) ==
    \A u \in DOMAIN users :
        \A k \in 1..Len(users[u].cartItems) :
            /\ users[u].cartItems[k].quantity % unit = 0
            /\ users[u].cartItems[k].quantity >= unit

\* C12: in every reachable state the quantity of every cart line is an
\* integer >= 1, whatever numeric quantity the bodies of the add and
\* quantity-update requests carry (0.5 and values below 1 among them).
C12_QuantitiesStayPositiveIntegers ==
    /\ QuantitiesArePositiveIntegers(usersFile)
    /\ userCache.data # 0 => QuantitiesArePositiveIntegers(heap[userCache.data])

\* the routes that set the quantity of a cart line, in either build
PatchRoutes == LegacyPatchRoutes \cup OptPatchRoutes

\* a quantity update that found its user and a line of its item
PatchOfExistingLine(q) ==
    /\ q.route \in PatchRoutes
    /\ q.users0 # None
    /\ q.id \in DOMAIN q.users0
    /\ QuantityOf(CartIn(q.users0, q), q.itemId) > 0

\* C13: a quantity update with quantity 0 on an existing line is accepted
\* and removes exactly that line: the other lines and their order are
\* unchanged and the stored count no longer includes the removed quantity.
C13_ZeroQuantityRemovesLine ==
    (/\ PatchOfExistingLine(answered)
     /\ answered.quantity = 0
     /\ answered.cause # "writeFile") =>
        LET before == CartIn(answered.users0, answered)
            after == CartIn(usersFile, answered) IN
        /\ answered.status = 200
        /\ Len(after) = Len(before) - 1
        /\ after = SelectSeq(before, LAMBDA ci : ci.itemId # answered.itemId)
        /\ usersFile[answered.id].count =
              SumQuantities(before) - QuantityOf(before, answered.itemId)

C13_Witness ==
    /\ PatchOfExistingLine(answered)
    /\ answered.quantity = 0
    /\ answered.status = 200
    /\ Len(CartIn(answered.users0, answered)) = 2
    /\ CartIn(answered.users0, answered)[1].itemId = answered.itemId
    /\ Len(CartIn(usersFile, answered)) = 1

\* C14: an add of item i with quantity q for a user whose cart has no line
\* of i answers 201, appends exactly one line {i, q} after the existing
\* lines, leaves those unchanged and raises the stored count by q.
C14_AddAppendsLine ==
    (/\ answered.route \in AddRoutes
     /\ answered.quantity >= 1
     /\ answered.users0 # None
     /\ answered.id \in DOMAIN answered.users0
     /\ QuantityOf(CartIn(answered.users0, answered), answered.itemId) = 0
     /\ answered.status \notin {400, 404}
     /\ answered.cause # "writeFile") =>
        LET before == CartIn(answered.users0, answered) IN
        /\ answered.status = 201
        /\ CartIn(usersFile, answered) =
              Append(before, Line(answered.itemId, answered.quantity))
        /\ usersFile[answered.id].count = SumQuantities(before) + answered.quantity

\* C15: a quantity update on an existing line is accepted with 200 and
\* stores the requested quantity whatever the stock of the product, so a
\* line whose quantity exceeds the stock is reached by the update alone.
C15_UpdateIgnoresStock ==
    (/\ PatchOfExistingLine(answered)
     /\ answered.quantity >= 1
     /\ answered.cause # "writeFile") =>
        /\ answered.status = 200
        /\ Len(CartIn(usersFile, answered)) = Len(CartIn(answered.users0, answered))
        /\ QuantityOf(CartIn(usersFile, answered), answered.itemId) = answered.quantity

C15_Witness ==
    /\ build = "optimized"
    /\ PatchOfExistingLine(answered)
    /\ answered.status = 200
    /\ answered.itemId \in DOMAIN productsFile
    /\ QuantityOf(CartIn(answered.users0, answered), answered.itemId)
          <= productsFile[answered.itemId].stock
    /\ QuantityOf(CartIn(usersFile, answered), answered.itemId)
          > productsFile[answered.itemId].stock

\* what the handler of POST /api/users/:id/cart makes of a request with the
\* parameters of q on the given collections: its three segments in a row
ApiAddOutcome(q, users, products) ==
    LET begun == LegacyAddBegin([Idle EXCEPT !.route = "POST /api/users/:id/cart",
                                             !.id = q.id, !.itemId = q.itemId,
                                             !.quantity = q.quantity])
        looked == IF begun.pc = "done" THEN begun
                  ELSE LegacyAddAfterProducts([begun EXCEPT !.products = products])
    IN  IF looked.pc = "done" THEN looked
        ELSE LegacyAddAfterUsers([looked EXCEPT !.users = users])

\* users.json as it was before the answered request
UsersBefore(q) == IF q.replaced # None THEN q.replaced ELSE usersFile

\* C16: the handler registered under the unprefixed path and the one under
\* the /api path return the same status and make the same change to
\* users.json for every request and every starting state (stated for the
\* add to cart, the operation whose two handlers differ).
C16_PrefixedAddAgrees ==
    (/\ answered.route = "POST /users/:id/cart"
     /\ answered.cause # "writeFile") =>
        LET api == ApiAddOutcome(answered, UsersBefore(answered), productsFile) IN
        IF api.pc = "done"
        THEN /\ answered.status = api.status
             /\ usersFile = UsersBefore(answered)
        ELSE /\ answered.status = 201
             /\ usersFile = api.users

\* C17: with two worker processes, after one worker has written users.json
\* the other, holding a snapshot younger than CACHE_TTL, keeps returning
\* that snapshot as it was before the write until it expires, and its first
\* read after the expiry returns what the first worker wrote.
C17_OtherWorkerReadsStale ==
    /\ (preWrite # None /\ IsCacheValid(userCache.data # 0, userCache.age)) =>
           heap[userCache.data] = preWrite
    /\ answered.route \in OptGetUsersRoutes =>
           /\ answered.status = 200
           /\ lastRead.from = "cache" =>
                 /\ lastRead.age < CACHE_TTL
                 /\ preWrite # None => answered.users = preWrite
           /\ (lastRead.from = "file" /\ answered.clean) =>
                 /\ answered.users = usersFile
                 /\ preWrite = None

C17_Witness ==
    /\ answered.route \in OptGetUsersRoutes
    /\ lastRead.from = "cache"
    /\ lastRead.age = CACHE_TTL - TickMs
    /\ preWrite # None
    /\ answered.users = preWrite
    /\ answered.users # usersFile

\* the first read after the expiry returned what the other worker wrote
C17_WitnessAfterExpiry ==
    /\ answered.route \in OptGetUsersRoutes
    /\ lastRead.from = "file"
    /\ answered.clean
    /\ answered.users = usersFile
    /\ Len(usersFile[1].cartItems) = 1
    /\ usersFile[1].count = MaxCartQty

\* no request is in flight
AtRest == \A r \in Reqs : ~InFlight(req[r])

\* C18: in a single process, whenever no request is in flight, every cache
\* snapshot younger than CACHE_TTL equals the parsed content of its file.
C18_CacheEqualsFileAtRest ==
    AtRest =>
        /\ IsCacheValid(userCache.data # 0, userCache.age) =>
              heap[userCache.data] = usersFile
        /\ IsCacheValid(productCache.data # None, productCache.age) =>
              productCache.data = productsFile

\* the parameters and the body of a cart request are well-formed: an item
\* id, and a quantity the operation accepts
WellFormed(q) ==
    /\ q.itemId # 0
    /\ q.quantity % unit = 0
    /\ q.route \in AddRoutes => q.quantity >= unit
    /\ q.route \in PatchRoutes => q.quantity >= 0

\* C19: a cart add, quantity update, item removal or checkout whose
\* parameters and body are well-formed but whose user id matches no user is
\* answered 404 and changes neither file, whatever item it names.
C19_UnknownUserIs404 ==
    (/\ answered.route \in CartChangeRoutes
     /\ answered.id \notin DOMAIN usersFile
     /\ WellFormed(answered)) =>
        /\ answered.status = 404
        /\ answered.replaced = None
        /\ answered.products0 # None => productsFile = answered.products0

\* the routes that remove the line of an item, in either build
DeleteRoutes == LegacyDeleteRoutes \cup OptDeleteRoutes

\* C20: a quantity update or an item removal naming an item that has no
\* line in the cart of an existing user is answered 404 and leaves the
\* cart, the count and users.json as they were.
C20_AbsentLineIs404 ==
    (/\ answered.route \in PatchRoutes \cup DeleteRoutes
     /\ answered.quantity >= 0
     /\ answered.users0 # None
     /\ answered.id \in DOMAIN answered.users0
     /\ QuantityOf(CartIn(answered.users0, answered), answered.itemId) = 0
     /\ answered.cause # "writeFile") =>
        /\ answered.status = 404
        /\ answered.replaced = None
        /\ userCache.data # 0 => heap[userCache.data] = answered.users0

\* the routes with an :itemId path parameter
ItemParamRoutes == PatchRoutes \cup DeleteRoutes

\* C21: a request whose user id or cart itemId path parameter is not a
\* positive integer is answered 400 before any collection is read, and
\* changes no state.
C21_BadParamIs400 ==
    (/\ answered.route \in CartChangeRoutes
     /\ \/ answered.id <= 0
        \/ answered.route \in ItemParamRoutes /\ answered.itemId <= 0) =>
        /\ answered.status = 400
        /\ answered.users0 = None
        /\ answered.replaced = None

\* C22: every non-success response has a status among 400, 404, 429 and
\* 500 and a JSON body of the form {error: <message>} (stated for the user
\* routes, whose error responses the model records with their body).
C22_ErrorEnvelope ==
    (/\ answered.route \in UserRoutes
     /\ answered.status \notin {200, 201}) =>
        /\ answered.status \in {400, 404, 429, 500}
        /\ answered.cause = "" => answered.body = {"error"}

\* no two users of the collection have the same id
NoDuplicateIds(users) ==
    \A j, k \in 1..Len(users) : j # k => users[j].id # users[k].id

\* C30: under any sequence and any interleaving of user creations, updates
\* and deletions, no two users of the users collection have the same id: in
\* users.json and in every users array in memory.
C30_UserIdsUnique ==
    /\ NoDuplicateIds(usersFile)
    /\ \A o \in ObjIds : heap[o] # None => NoDuplicateIds(heap[o])

C30_Witness ==
    /\ answered.route \in CreateUserRoutes
    /\ answered.status = 201
    /\ ~answered.clean
    /\ Len(usersFile) = 2
    /\ usersFile[1].id = 2

\* the routes of the optimized build that call readUsers(), those that call
\* readProducts()
UsersReaders == OptGetUsersRoutes \cup OptAddRoutes
ProductsReaders == OptGetProductsRoutes

\* a request the step answers after its validation let it through: the
\* handlers of these routes answer 400 only before they read
AnswersReader(q, routes) == q.route \in routes /\ q.status # 400

\* the step takes the request of slot r past a read of the given kind that
\* was pending, or answers a request that arrived in this very step
PastRead(r, pc, routes) ==
    \/ req[r].pc = pc /\ req'[r] # req[r]
    \/ /\ \A o \in Reqs : ~InFlight(req[o])
       /\ AnswersReader(answered', routes)

C24_HundredPerWindow ==
    [][\A ip \in IPs :
          door'.seen[ip] > door.seen[ip] =>
              /\ door'.passed <=> door'.seen[ip] <= RATE_MAX
              /\ ~door'.passed =>
                    /\ answered'.status = 429
                    /\ UNCHANGED <<files, caches, req>>]_vars

\* the same in a single process
C24_HundredPerWindowAlone ==
    [][\A ip \in IPs :
          (Len(limiter) = 1 /\ door'.seen[ip] > door.seen[ip]) =>
              /\ door'.passed <=> door'.seen[ip] <= RATE_MAX
              /\ ~door'.passed =>
                    /\ answered'.status = 429
                    /\ UNCHANGED <<files, caches, req>>]_vars

\* the sum of the ratings of comments[from..to]
RECURSIVE RatingSumOf(_, _, _)
RatingSumOf(comments, from, to) ==
    IF from > to THEN 0
    ELSE IF from = to THEN comments[from].rating
    ELSE LET mid == (from + to) \div 2 IN
         RatingSumOf(comments, from, mid) + RatingSumOf(comments, mid + 1, to)

\* the sum of the ratings of a comment list
RatingSum(comments) == RatingSumOf(comments, 1, Len(comments))

\* hundredths is one of the hundredths nearest to sum / n
NearestHundredth(hundredths, sum, n) ==
    LET diff == 100 * sum - n * hundredths IN
    2 * (IF diff < 0 THEN 0 - diff ELSE diff) <= n

\* C25: GET /api/products/:id of an existing product answers 200 with the
\* stored product and a rating that is null when the product has no comment
\* (an empty list or no list) and otherwise the mean of the ratings rounded
\* to two decimals; the stored product stays as it was.
C25_RatingIsRoundedMean ==
    (/\ answered.route \in GetProductRoutes
     /\ build = "optimized"
     /\ answered.id \in DOMAIN productsFile) =>
        LET stored == productsFile[answered.id]
            n == Len(stored.comments) IN
        /\ answered.status = 200
        /\ answered.product = stored
        /\ n = 0 => answered.average = NullRating
        /\ n > 0 => NearestHundredth(answered.average, RatingSum(stored.comments), n)
        /\ productsFile = answered.products0
        /\ productCache.data = productsFile

\* three comments whose ratings add up to 2: the mean 0.666... is answered
\* as 0.67
C25_Witness ==
    /\ answered.route \in GetProductRoutes
    /\ build = "optimized"
    /\ answered.status = 200
    /\ Len(answered.product.comments) = 3
    /\ RatingSum(answered.product.comments) = 2
    /\ answered.average = 67

\* a product without a comments property is answered with rating null
C25_WitnessAbsent ==
    /\ answered.route \in GetProductRoutes
    /\ build = "optimized"
    /\ answered.status = 200
    /\ ~answered.product.hasComments
    /\ answered.average = NullRating

\* a JSON value that is an integer in 1..5
IsRating1to5(j) == j.type = "number" /\ j.twice \in {2, 4, 6, 8, 10}

\* the step answers a comment request that names its author and its text and
\* is for an existing product, and no write failed
AnswersComment ==
    /\ answered'.route \in CommentRoutes
    /\ answered'.user # "" /\ answered'.text # ""
    /\ answered'.id \in DOMAIN productsFile
    /\ answered'.cause # "writeFile"

\* the step appends the comment of the request it answers to the list of
\* its product, persists that, and answers 201 with the product and the
\* mean over the new list
AppendsComment ==
    LET id == answered'.id
        comment == [user |-> answered'.user, text |-> answered'.text,
                    rating |-> answered'.rating.twice \div 2]
        list == Append(productsFile[id].comments, comment) IN
    /\ answered'.status = 201
    /\ productsFile'[id].comments = list
    /\ productsFile'[id].stock = productsFile[id].stock
    /\ \A p \in DOMAIN productsFile : p # id => productsFile'[p] = productsFile[p]
    /\ answered'.product = productsFile'[id]
    /\ NearestHundredth(answered'.average, RatingSum(list), Len(list))

\* C26: a comment request with author, text and an integer rating in 1..5
\* for an existing product appends exactly one comment at the end of the
\* product's list, persists it, leaves the other products alone and answers
\* 201 with the product and the mean over the new list; a rating that is no
\* integer in 1..5 is answered 400 and nothing is persisted.
C26_CommentAppended ==
    [][AnswersComment =>
          IF IsRating1to5(answered'.rating)
          THEN AppendsComment
          ELSE answered'.status = 400 /\ productsFile' = productsFile]_vars

\* the first half of C26 alone
C26_ValidCommentAppended ==
    [][(AnswersComment /\ IsRating1to5(answered'.rating)) => AppendsComment]_vars

\* the second half of C26 for the ratings that are JSON numbers
C26_BadNumberIs400 ==
    [][(/\ AnswersComment
        /\ answered'.rating.type = "number"
        /\ ~IsRating1to5(answered'.rating)) =>
            answered'.status = 400 /\ productsFile' = productsFile]_vars

\* C27: a comment request for a product that has COMMENT_CEILING comments
\* or more is answered 400 and adds nothing, so that no product ever has
\* more than COMMENT_CEILING comments.
C27_CommentCeiling ==
    [][/\ \A p \in DOMAIN productsFile' :
              Len(productsFile'[p].comments) <= COMMENT_CEILING
       /\ (/\ answered'.route \in CommentRoutes
           /\ answered'.id \in DOMAIN productsFile
           /\ Len(productsFile[answered'.id].comments) >= COMMENT_CEILING) =>
              /\ answered'.status = 400
              /\ productsFile' = productsFile]_vars

\* C28: no cart ever holds more than CART_LIMIT items.
C28_CartHoldsAtMostHundred ==
    \A u \in DOMAIN usersFile : Len(usersFile[u].cartItems) <= CART_LIMIT

\* C29: a checkout sent again for the same user right after a successful
\* checkout is answered 400 "Cart is empty", not with a stock error,
\* whatever stock is left, and changes nothing.
C29_RepeatedCheckoutIsEmptyCart ==
    answered.again =>
        /\ answered.status = 400
        /\ answered.error = "Cart is empty"
        /\ answered.replaced = None
        /\ usersFile = answered.users0
        /\ productsFile = answered.products0

\* the repeated checkout was answered while the first one had used up the
\* stock of a product
C29_Witness ==
    /\ answered.again
    /\ answered.status = 400
    /\ \E p \in DOMAIN productsFile : productsFile[p].stock = 0

\* what the handler of the add to cart q makes of the same request with the
\* quantity 1 sent, on the given collections: its segments in a row
AddOfOne(q, users, products) ==
    LET begun == Begin([AddIdle EXCEPT !.route = q.route, !.id = q.id,
                                       !.itemId = q.itemId, !.quantity = unit,
                                       !.given = {"itemId", "quantity"}])
        looked == IF begun.pc = "readProducts"
                  THEN AfterProducts([begun EXCEPT !.products = products])
                  ELSE begun
    IN  IF looked.pc = "readUsers"
        THEN AfterUsers([looked EXCEPT !.users = users])
        ELSE looked

\* the users collection the answered request worked on: the one it read, or
\* the file when it never read
UsersSeenBy(q) == IF q.users0 # None THEN q.users0 ELSE UsersBefore(q)

\* the answered add is answered as the same add with quantity 1 is, and
\* users.json is left as that add leaves it
AnsweredAsAddOfOne ==
    LET one == AddOfOne(answered, UsersSeenBy(answered), productsFile) IN
    IF one.pc = "done"
    THEN /\ answered.status = one.status
         /\ answered.replaced = None
    ELSE /\ answered.status = SuccessStatus(answered.route)
         /\ usersFile = one.users

\* C31: an add-to-cart request whose body gives an itemId and omits quantity
\* is treated as an add of quantity 1: it gets the answer, and users.json the
\* change, of the same request with quantity 1.
C31_OmittedQuantityIsOne ==
    (/\ answered.route \in AddRoutes
     /\ answered.given = {"itemId"}
     /\ answered.cause # "writeFile") => AnsweredAsAddOfOne

\* the same of the legacy build alone
C31_LegacyOmittedQuantityIsOne ==
    (/\ build = "legacy"
     /\ answered.route \in AddRoutes
     /\ answered.given = {"itemId"}
     /\ answered.cause # "writeFile") => AnsweredAsAddOfOne

\* an add without quantity has put a line of quantity 1 into an empty cart
C31_LegacyWitness ==
    /\ build = "legacy"
    /\ answered.route \in AddRoutes
    /\ answered.given = {"itemId"}
    /\ answered.status = 201
    /\ CartIn(answered.users0, answered) = <<>>
    /\ CartIn(usersFile, answered) = <<Line(answered.itemId, unit)>>

\* products.json holds less stock of some product than the request read
StockDecrementedSince(q) ==
    /\ q.products0 # None
    /\ \E p \in DOMAIN productsFile : productsFile[p].stock < q.products0[p].stock

\* C32: checkout writes products.json before users.json and starts the
\* users write only after the products write succeeded; no checkout is
\* answered with an error while the persisted stock is already decremented
\* and the persisted cart is not cleared.
C32_NoHalfDoneCheckout ==
    (/\ answered.route \in LegacyCheckoutRoutes
     /\ answered.status # 0
     /\ answered.status # 200) =>
        ~(/\ StockDecrementedSince(answered)
          /\ answered.id \in DOMAIN usersFile
          /\ CartIn(usersFile, answered) # <<>>)

\* the order of the two writes alone: a checkout comes to await
\* writeUsers(users) only in the step in which its writeProducts(products)
\* resolves and products.json takes its products, and users.json changes
\* only when a writeUsers resolves
C32_ProductsWrittenFirst ==
    [][\A r \in Reqs :
          /\ (/\ req'[r].route \in LegacyCheckoutRoutes
               /\ req'[r].pc = "writeUsers"
               /\ req[r].pc # "writeUsers") =>
                  /\ req[r].pc = "writeProducts"
                  /\ productsFile' = req[r].products
          /\ (req[r].route \in LegacyCheckoutRoutes /\ req[r].pc # "writeUsers"
               /\ \A o \in Reqs \ {r} : ~InFlight(req[o])) =>
                  usersFile' = usersFile]_vars

\* C33: every collection GET /api/users returns equals a value users.json
\* held at some time at or before the response: a mutation whose file write
\* has not completed yet, or has failed, is never visible to another
\* request.
C33_ReadsWhatTheFileHeld ==
    (/\ answered.route \in OptGetUsersRoutes
     /\ answered.status = 200) => answered.users \in held

\* C34: for each product, under any interleaving of checkouts, the line
\* quantities of the checkouts answered 200 add up to the initial stock less
\* the persisted stock once no request is in flight, and never to more than
\* the initial stock (no overselling).
C34_NoOverselling ==
    \A p \in ProductIds :
        /\ unsold[p] >= 0
        /\ (\A r \in Reqs : ~InFlight(req[r])) => productsFile[p].stock = unsold[p]

\* the optimized routes that change users.json
OptMutatingRoutes == OptAddRoutes \cup OptPatchRoutes \cup OptDeleteRoutes

\* what the handler of the answered request makes of the collection
\* users.json held when the request's write began
OnTheFileBefore(q) == AfterUsers([q EXCEPT !.pc = "readUsers", !.users = UsersBefore(q)])

\* C35: with clustering enabled, two mutating requests on the users
\* collection that do not overlap in time, are served by different workers
\* and are both answered with success are both reflected in users.json
\* afterwards: where the second one's handler finds nothing to reject in what
\* the first one wrote, its write is its change applied to that.
C35_BothWritesReflected ==
    (/\ answered.route \in OptMutatingRoutes
     /\ answered.status = 200
     /\ answered.clean
     /\ OnTheFileBefore(answered).pc = "writeUsers") =>
        usersFile = OnTheFileBefore(answered).users

\* the step answers a request with a status of 400 to 499 that a route
\* handler or a validation middleware sent
Rejects ==
    /\ answered'.status \in 400..499
    /\ answered'.cause = ""

\* the step leaves both files as they are
FilesKept == productsFile' = productsFile /\ usersFile' = usersFile

\* the step leaves the snapshots of both caches, data and time, and every
\* array in memory as they are
CachesKept == userCache' = userCache /\ productCache' = productCache /\ heap' = heap

\* the step replaces the users snapshot by what it has just parsed from
\* users.json and leaves the products snapshot as it is
UsersCacheRefilled ==
    /\ userCache'.data # 0
    /\ userCache'.age = 0
    /\ heap'[userCache'.data] = usersFile
    /\ \A o \in ObjIds : heap'[o] # None => o = userCache'.data
    /\ productCache' = productCache

C36_WitnessCached ==
    /\ answered.status = 404
    /\ answered.route \in OptPatchRoutes
    /\ answered.id \in UserIds
    /\ lastRead.from = "cache"
    /\ heap[userCache.data][answered.id].cartItems # <<>>

\* the step answers a cart add, update or removal of the optimized build
\* with success
CartChangeSucceeds ==
    /\ answered'.route \in OptMutatingRoutes
    /\ answered'.status = 200

\* the step changes nothing of users.json but the cart lines and the count
\* of the user the request names, and nothing of products.json
OnlyThatCartChanges ==
    /\ DOMAIN usersFile' = DOMAIN usersFile
    /\ \A u \in DOMAIN usersFile :
          IF u = answered'.id
          THEN usersFile'[u].name = usersFile[u].name
          ELSE usersFile'[u] = usersFile[u]
    /\ productsFile' = productsFile

\* C37: when requests run one at a time, a cart add, quantity update or
\* item removal for user u changes only u's cart lines and u's derived
\* count: every other user's record, u's other fields and the products
\* collection are unchanged.
C37_OnlyThatCartChanges ==
    [][CartChangeSucceeds => OnlyThatCartChanges]_vars

\* the same of the requests whose handler worked on the collection
\* users.json holds
C37_OnlyThatCartChangesFromTheFile ==
    [][(CartChangeSucceeds /\ answered'.users0 = usersFile) => OnlyThatCartChanges]_vars

\* with clustering the primary has forked numCPUs workers, each running or
\* awaiting its replacement, and neither listens nor has served a request
PrimaryOnlyForks ==
    cluster.enabled =>
        /\ cluster.primary = "forked" =>
              Cardinality({w \in WorkerIds : cluster.worker[w] \in {"starting", "listening", "exited"}}) = NumCPUs
        /\ cluster.primary # "listening"
        /\ Primary \notin cluster.served

\* the step that handles a worker's exit starts exactly one worker
ExitForksOne ==
    (\E w \in WorkerIds : cluster.worker[w] = "exited" /\ cluster'.worker[w] = "gone")
        => Cardinality({w \in WorkerIds : cluster.worker[w] = "none" /\ cluster'.worker[w] = "starting"}) = 1

\* C38: with clustering enabled the primary forks one worker per CPU and
\* serves no requests itself, each time a worker exits it forks exactly one
\* replacement, and the number of live workers always returns to the CPU
\* count.
C38_WorkersReturnToCpuCount ==
    /\ []PrimaryOnlyForks
    /\ [][ExitForksOne]_vars
    /\ []<>(cluster.enabled =>
              Cardinality({w \in WorkerIds : cluster.worker[w] \in {"starting", "listening"}}) = NumCPUs)
\* two workers have died and been replaced, numCPUs workers run and a
\* worker has served a request
C38_Witness ==
    /\ cluster.enabled
    /\ Cardinality({w \in WorkerIds : cluster.worker[w] = "gone"}) = 2
    /\ Cardinality({w \in WorkerIds : cluster.worker[w] \in {"starting", "listening"}}) = NumCPUs
    /\ cluster.served # {}

\* no two users of the collection have emails, or usernames, that the
\* given reading makes the same
NoTwoAlike(users, Reading(_)) ==
    \A j, k \in 1..Len(users) :
        j # k => /\ Reading(users[j].email) # Reading(users[k].email)
                 /\ Reading(users[j].username) # Reading(users[k].username)
CaseAndSpaceBlind(str) == ToLower(Trim(str))
AsWritten(str) == str

\* C39: after any sequence of POST /api/users and PATCH /api/users/:id
\* requests, no two users have the same email and no two users have the
\* same username, comparing case-insensitively and ignoring surrounding
\* whitespace.
C39_NoTwoUsersAlike == NoTwoAlike(usersFile, CaseAndSpaceBlind)

\* the same, comparing the strings as they are stored
C39_NoTwoUsersSame == NoTwoAlike(usersFile, AsWritten)

====
